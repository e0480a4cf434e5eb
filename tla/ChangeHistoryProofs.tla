------------------------ MODULE ChangeHistoryProofs ------------------------
(***************************************************************************)
(* Proofs about ChangeHistory for any fields, values, number of instances  *)
(* and cap, and however many saves, failures and edits.                    *)
(*                                                                         *)
(* Two things carry them.  An instance that is up to date and was not      *)
(* re-baselined has a snapshot equal to the row (Match): its diff is what  *)
(* the save changes.  And as long as nothing worse than staleness happened *)
(* the trail explains the row (Agrees), and the history in the memory of   *)
(* an instance without flaws explains that instance's snapshot (Recall): a *)
(* stale save then puts back values together with their own history.       *)
(***************************************************************************)
EXTENDS ChangeHistory, SequenceTheorems, TLAPS

Snapshots == UNION {[D -> Values] : D \in SUBSET Fields}

\* Types, as sequences and functions; the fields a snapshot covers.
Typed ==
    /\ row \in [Fields -> Values]
    /\ trail \in Seq(Entries) /\ Len(trail) <= Cap
    /\ version \in 0..MaxWrites
    /\ state \in [Instances -> {"none", "adding", "loaded"}]
    /\ value \in [Instances -> [Fields -> Values]]
    /\ loaded \in [Instances -> SUBSET Fields]
    /\ snapshot \in [Instances -> Snapshots]
    /\ history \in [Instances -> Seq(Entries)]
    /\ \A i \in Instances : Len(history[i]) <= Cap
    /\ base \in [Instances -> 0..MaxWrites]
    /\ flaws \in [Instances -> SUBSET {"mixed", "phantom", "rebased"}]
    /\ last \subseteq {"stale", "mixed", "phantom", "rebased"} /\ last \subseteq taint
    /\ failures \in 0..MaxFailures /\ edits \in 0..MaxEdits

\* A loaded instance has a snapshot of what it loaded, another one has none, and
\* one built by hand has what its partial saves gave it; nobody has read a version
\* that was not yet written.
Cover(st, l, sn, b, n) ==
    /\ st = "loaded" => IF b = 0 THEN l = Fields /\ n > 0 ELSE sn \in [l -> Values]
    /\ st # "loaded" => sn = NoSnapshot /\ l = Fields
    /\ b <= n

\* The snapshot of an up-to-date instance is the row.
Match(st, l, sn, b, fl, n, rw) ==
    st = "loaded" /\ b = n /\ "rebased" \notin fl => \A f \in l : sn[f] = rw[f]

Says(t, k, f) == \E c \in t[k].changes : c.field = f

\* The newest entry of t that mentions f ends with the value v.
Explains(t, f, v) == \A k \in 1..Len(t) :
    Says(t, k, f) /\ (\A j \in 1..Len(t) : Says(t, j, f) => j <= k)
        => \E c \in t[k].changes : c.field = f /\ c.new = v

\* The history an instance without flaws holds explains its snapshot, and is the
\* trail if it is up to date; one built by hand has neither yet.
Recall(st, l, sn, h, b, fl, n, t) == fl = {} =>
    /\ st = "adding" => h = <<>>
    /\ st = "loaded" =>
        /\ b = n => h = t
        /\ b = 0 => h = <<>> /\ sn = NoSnapshot
        /\ \A f \in l : Explains(h, f, sn[f])

Agrees(t, rw) == \A f \in Fields : Explains(t, f, rw[f])

Benign(ts) == ts \subseteq {"stale"}

IInv ==
    /\ Typed
    /\ \A i \in Instances :
        /\ Cover(state[i], loaded[i], snapshot[i], base[i], version)
        /\ Match(state[i], loaded[i], snapshot[i], base[i], flaws[i], version, row)
        /\ Benign(taint) => Recall(state[i], loaded[i], snapshot[i], history[i], base[i], flaws[i], version, trail)
    /\ Benign(taint) => Agrees(trail, row)

-----------------------------------------------------------------------------

\* history[-cap:] keeps the newest entries.
LEMMA CappedFacts ==
    ASSUME NEW s \in Seq(Entries)
    PROVE  /\ Capped(s) \in Seq(Entries) /\ Len(Capped(s)) <= Cap /\ Len(Capped(s)) \in Nat
           /\ Len(s) > 0 => Len(Capped(s)) > 0
           /\ \E d \in Nat : /\ Len(Capped(s)) + d = Len(s)
                             /\ \A k \in 1..Len(Capped(s)) : Capped(s)[k] = s[k + d]
  <1>1. Len(s) \in Nat /\ Cap \in Nat \ {0} /\ \A k \in 1..Len(s) : s[k] \in Entries
    BY HistoryAssumption, LenProperties
  <1>2. CASE Len(s) <= Cap
    <2>1. Capped(s) = s /\ \A k \in 1..Len(s) : s[k] = s[k + 0]
      BY <1>1, <1>2 DEF Capped
    <2> QED
      BY <1>1, <1>2, <2>1
  <1>3. CASE Len(s) > Cap
    <2> DEFINE n == Len(s)
               d == Len(s) - Cap
               m == d + 1
               t == SubSeq(s, m, n)
    <2>1. Capped(s) = t
      BY <1>1, <1>3 DEF Capped
    <2>2. n \in Nat /\ d \in Nat /\ m \in 1..n /\ n - m + 1 = Cap /\ Cap > 0 /\ n = Cap + d
      BY <1>1, <1>3
    <2>3. \A k \in m..n : s[k] \in Entries
      BY <1>1, <2>2
    <2>4. m \in Int /\ n \in Int
      BY <2>2
    <2> HIDE DEF n, m
    <2>5. /\ SubSeq(s, m, n) \in Seq(Entries)
          /\ Len(SubSeq(s, m, n)) = IF m <= n THEN n - m + 1 ELSE 0
          /\ \A k \in 1..(n - m + 1) : SubSeq(s, m, n)[k] = s[m + k - 1]
      <3> HIDE DEF d
      <3> QED
        BY <2>4, <2>3, SubSeqProperties
    <2> HIDE DEF t
    <2>6. /\ t \in Seq(Entries)
          /\ Len(t) = IF m <= n THEN n - m + 1 ELSE 0
          /\ \A k \in 1..(n - m + 1) : t[k] = s[m + k - 1]
      BY <2>5 DEF t
    <2>7. Len(t) = Cap
      BY <2>2, <2>6
    <2>8. \A k \in 1..Cap : t[k] = s[k + d]
      <3> SUFFICES ASSUME NEW k \in 1..Cap PROVE t[k] = s[k + d]
        OBVIOUS
      <3>1. k \in 1..(n - m + 1) /\ m + k - 1 = k + d
        BY <1>1, <2>2 DEF m
      <3> QED
        BY <2>6, <3>1
    <2> HIDE DEF d
    <2> QED
      BY <1>1, <2>1, <2>2, <2>6, <2>7, <2>8 DEF n
  <1> QED
    BY <1>1, <1>2, <1>3

\* What a sequence explains, its newest part does.
LEMMA CappedExplains ==
    ASSUME NEW s \in Seq(Entries), NEW f, NEW v, Explains(s, f, v)
    PROVE  Explains(Capped(s), f, v)
  <1> DEFINE t == Capped(s)
  <1>1. PICK d \in Nat : Len(t) + d = Len(s) /\ \A k \in 1..Len(t) : t[k] = s[k + d]
    BY CappedFacts
  <1>2. Len(t) \in Nat /\ Len(s) \in Nat
    BY CappedFacts, LenProperties
  <1> HIDE DEF t
  <1>3. ASSUME NEW k \in 1..Len(t), Says(t, k, f), \A j \in 1..Len(t) : Says(t, j, f) => j <= k
        PROVE  \E c \in t[k].changes : c.field = f /\ c.new = v
    <2>1. k + d \in 1..Len(s) /\ t[k] = s[k + d] /\ Says(s, k + d, f)
      BY <1>1, <1>2, <1>3 DEF Says
    <2>2. ASSUME NEW j \in 1..Len(s), Says(s, j, f) PROVE j <= k + d
      <3>1. CASE j <= d
        BY <1>2, <3>1
      <3>2. CASE j > d
        <4>1. j - d \in 1..Len(t) /\ (j - d) + d = j
          BY <1>1, <1>2, <3>2
        <4>2. Says(t, j - d, f)
          BY <1>1, <2>2, <4>1 DEF Says
        <4>3. j - d <= k
          BY <1>3, <4>1, <4>2
        <4> QED
          BY <1>2, <4>3
      <3> QED
        BY <1>2, <3>1, <3>2
    <2> QED
      BY <2>1, <2>2 DEF Explains
  <1> QED
    BY <1>3 DEF Explains, t

\* A new entry explains what it mentions, and leaves the rest to the others.
LEMMA AppendExplains ==
    ASSUME NEW s \in Seq(Entries), NEW e \in Entries, NEW f, NEW v,
           \/ \E c \in e.changes : c.field = f /\ c.new = v
           \/ Explains(s, f, v) /\ ~\E c \in e.changes : c.field = f
    PROVE  Explains(Append(s, e), f, v)
  <1> DEFINE t == Append(s, e)
             n == Len(s)
  <1>1. /\ n \in Nat /\ Len(t) = n + 1 /\ t[n + 1] = e
        /\ \A k \in 1..n : t[k] = s[k]
    BY AppendProperties, LenProperties
  <1> HIDE DEF t
  <1>2. ASSUME NEW k \in 1..Len(t), Says(t, k, f), \A j \in 1..Len(t) : Says(t, j, f) => j <= k
        PROVE  \E c \in t[k].changes : c.field = f /\ c.new = v
    <2>1. CASE \E c \in e.changes : c.field = f /\ c.new = v
      <3>1. Says(t, n + 1, f) /\ n + 1 \in 1..Len(t)
        BY <1>1, <2>1 DEF Says
      <3>2. k = n + 1
        BY <1>1, <1>2, <3>1
      <3> QED
        BY <1>1, <2>1, <3>2
    <2>2. CASE Explains(s, f, v) /\ ~\E c \in e.changes : c.field = f
      <3>1. k # n + 1
        BY <1>1, <1>2, <2>2 DEF Says
      <3>2. k \in 1..n /\ t[k] = s[k] /\ Says(s, k, f)
        BY <1>1, <1>2, <3>1 DEF Says
      <3>3. ASSUME NEW j \in 1..n, Says(s, j, f) PROVE j <= k
        BY <1>1, <1>2, <3>3 DEF Says
      <3> QED
        BY <2>2, <3>2, <3>3 DEF Explains
    <2> QED
      BY <2>1, <2>2
  <1> QED
    BY <1>2 DEF Explains, t

-----------------------------------------------------------------------------

\* What save() works with: the instance's values and snapshot once the deferred
\* columns were read.
LEMMA FullFacts ==
    ASSUME IInv, NEW i \in Instances, state[i] # "none"
    PROVE  /\ FullValue(i) \in [Fields -> Values]
           /\ FullSnapshot(i) \in Snapshots
           /\ state[i] = "loaded" /\ base[i] # 0 => FullSnapshot(i) \in [Fields -> Values]
           /\ state[i] = "loaded" /\ base[i] = 0 => version # 0
           /\ state[i] = "adding" => FullSnapshot(i) = NoSnapshot
           /\ FlawsOnRead(i) \in SUBSET {"mixed", "phantom", "rebased"}
           /\ state[i] = "loaded" /\ base[i] = version /\ "rebased" \notin FlawsOnRead(i)
                => \A f \in Fields : FullSnapshot(i)[f] = row[f]
           /\ Benign(taint) /\ FlawsOnRead(i) = {} =>
                /\ flaws[i] = {}
                /\ state[i] = "adding" => history[i] = <<>>
                /\ state[i] = "loaded" =>
                    /\ base[i] = version => history[i] = trail
                    /\ base[i] = 0 => history[i] = <<>> /\ FullSnapshot(i) = NoSnapshot
                    /\ \A f \in Fields : Explains(history[i], f, FullSnapshot(i)[f])
  <1>1. /\ row \in [Fields -> Values] /\ value[i] \in [Fields -> Values] /\ loaded[i] \subseteq Fields
        /\ flaws[i] \subseteq {"mixed", "phantom", "rebased"} /\ state[i] \in {"adding", "loaded"}
        /\ Cover(state[i], loaded[i], snapshot[i], base[i], version)
        /\ Match(state[i], loaded[i], snapshot[i], base[i], flaws[i], version, row)
        /\ Benign(taint) => Recall(state[i], loaded[i], snapshot[i], history[i], base[i], flaws[i], version, trail)
        /\ Benign(taint) => Agrees(trail, row)
        /\ snapshot[i] \in Snapshots /\ version \in Nat
    BY HistoryAssumption DEF IInv, Typed
  <1>2. FullValue(i) \in [Fields -> Values] /\ [Fields -> Values] \subseteq Snapshots
    BY <1>1 DEF FullValue, Snapshots
  <1>3. CASE loaded[i] = Fields
    <2>1. FullSnapshot(i) = snapshot[i] /\ FlawsOnRead(i) = flaws[i]
      BY <1>3 DEF FullSnapshot, FlawsOnRead
    <2> QED
      BY <1>1, <1>2, <1>3, <2>1 DEF Cover, Match, Recall
  <1>4. CASE loaded[i] # Fields
    <2>1. /\ state[i] = "loaded" /\ base[i] # 0 /\ snapshot[i] \in [loaded[i] -> Values]
          /\ FullSnapshot(i) = FullValue(i)
          /\ FlawsOnRead(i) = flaws[i] \cup ReadAgain(i, Fields \ loaded[i])
      BY <1>1, <1>4 DEF FullSnapshot, FlawsOnRead, Cover
    <2>2. ReadAgain(i, Fields \ loaded[i]) \subseteq {"mixed", "rebased"}
      BY DEF ReadAgain
    <2>3. "rebased" \notin FlawsOnRead(i) =>
             \A f \in Fields : FullSnapshot(i)[f] = IF f \in loaded[i] THEN snapshot[i][f] ELSE row[f]
      <3> SUFFICES ASSUME "rebased" \notin FlawsOnRead(i), NEW f \in Fields
                   PROVE  FullSnapshot(i)[f] = IF f \in loaded[i] THEN snapshot[i][f] ELSE row[f]
        OBVIOUS
      <3>1. Pending(i) \subseteq Fields \ loaded[i]
        BY <2>1 DEF ReadAgain
      <3>2. f \in loaded[i] => snapshot[i][f] = value[i][f]
        BY <2>1, <3>1 DEF Pending
      <3> QED
        BY <2>1, <3>2 DEF FullValue
    <2>4. "mixed" \notin FlawsOnRead(i) => base[i] = version
      BY <2>1 DEF ReadAgain
    <2> QED
      BY ZenonT(30), <1>1, <1>2, <2>1, <2>2, <2>3, <2>4 DEF Match, Recall, Agrees
  <1> QED
    BY <1>3, <1>4

\* The recorded changes are those among the fields the save writes.
LEMMA ChangesFacts ==
    ASSUME IInv, NEW i \in Instances, state[i] # "none", NEW fs \in SUBSET Fields
    PROVE  /\ Changes(i, fs) \in SUBSET [field : Fields, old : Values, new : Values]
           /\ ActionFor(i, Changes(i, fs)) \in {"created", "updated", "deleted", "restored"}
           /\ ~Adding(i) => Changes(i, fs) =
                {Change(f, FullSnapshot(i)[f], FullValue(i)[f]) :
                    f \in {g \in DOMAIN FullSnapshot(i) \cap fs : FullSnapshot(i)[g] # FullValue(i)[g]}}
           /\ \A f : (\E c \in Changes(i, fs) : c.field = f)
                     => \E c \in Changes(i, fs) : c.field = f /\ c.new = FullValue(i)[f]
  <1>1. /\ FullValue(i) \in [Fields -> Values] /\ Blank \in Values
        /\ DOMAIN FullSnapshot(i) \subseteq Fields
        /\ \A f \in DOMAIN FullSnapshot(i) : FullSnapshot(i)[f] \in Values
    BY FullFacts, HistoryAssumption DEF Snapshots
  <1>2. ActionFor(i, Changes(i, fs)) \in {"created", "updated", "deleted", "restored"}
    BY DEF ActionFor
  <1>3. CASE Adding(i)
    <2>1. Changes(i, fs) = {Change(f, Blank, FullValue(i)[f]) : f \in {g \in Fields : FullValue(i)[g] # Blank}}
      BY <1>3 DEF Changes
    <2> QED
      BY <1>1, <1>2, <1>3, <2>1 DEF Change
  <1>4. CASE ~Adding(i)
    <2>1. Changes(i, fs) =
            {Change(f, FullSnapshot(i)[f], FullValue(i)[f]) :
                f \in {g \in DOMAIN FullSnapshot(i) \cap fs : FullSnapshot(i)[g] # FullValue(i)[g]}}
      BY <1>4 DEF Changes
    <2> QED
      BY <1>1, <1>2, <1>4, <2>1 DEF Change
  <1> QED
    BY <1>3, <1>4

\* What the instance holds once save() has appended its entry.
LEMMA NewHistoryFacts ==
    ASSUME IInv, NEW i \in Instances, state[i] # "none", NEW fs \in SUBSET Fields
    PROVE  /\ NewHistory(i, fs) \in Seq(Entries)
           /\ Len(NewHistory(i, fs)) <= Cap
           /\ ~Recorded(i, fs) => NewHistory(i, fs) = history[i]
           /\ Recorded(i, fs) => NewHistory(i, fs)[Len(NewHistory(i, fs))].changes = Changes(i, fs)
           /\ \A f, v : \/ \E c \in Changes(i, fs) : c.field = f /\ c.new = v
                        \/ Explains(history[i], f, v) /\ ~\E c \in Changes(i, fs) : c.field = f
                       => Explains(NewHistory(i, fs), f, v)
  <1> DEFINE h == history[i]
             e == [action |-> ActionFor(i, Changes(i, fs)), changes |-> Changes(i, fs)]
             s == Append(h, e)
             t == Capped(s)
  <1>1. h \in Seq(Entries) /\ Len(h) <= Cap
    BY DEF IInv, Typed
  <1>2. e \in Entries /\ e.changes = Changes(i, fs)
    BY ChangesFacts DEF Entries
  <1>3. CASE Recorded(i, fs)
    <2>1. NewHistory(i, fs) = t
      BY <1>3 DEF NewHistory
    <2> HIDE DEF e, h
    <2>2. s \in Seq(Entries) /\ Len(s) = Len(h) + 1 /\ Len(h) \in Nat /\ s[Len(h) + 1] = e
      BY <1>1, <1>2, AppendProperties, LenProperties
    <2>3. ASSUME NEW f, NEW v, \/ \E c \in e.changes : c.field = f /\ c.new = v
                               \/ Explains(h, f, v) /\ ~\E c \in e.changes : c.field = f
          PROVE  Explains(s, f, v)
      BY <1>1, <1>2, <2>3, AppendExplains
    <2> HIDE DEF s
    <2>4. ASSUME NEW f, NEW v, Explains(s, f, v) PROVE Explains(t, f, v)
      BY <2>2, <2>4, CappedExplains
    <2>5. /\ t \in Seq(Entries) /\ Len(t) <= Cap /\ Len(t) \in Nat
          /\ Len(t) > 0
      BY <2>2, CappedFacts
    <2>6. PICK d \in Nat : Len(t) + d = Len(s) /\ \A k \in 1..Len(t) : t[k] = s[k + d]
      BY <2>2, CappedFacts
    <2> HIDE DEF t
    <2>7. t[Len(t)] = e
      <3>1. Len(t) \in 1..Len(t)
        BY <2>5
      <3> QED
        BY <2>2, <2>6, <3>1
    <2> QED
      BY <1>2, <1>3, <2>1, <2>3, <2>4, <2>5, <2>7 DEF h
  <1>4. CASE ~Recorded(i, fs)
    <2>1. NewHistory(i, fs) = h /\ Changes(i, fs) = {}
      BY <1>4 DEF NewHistory, Recorded
    <2> QED
      BY <1>1, <1>4, <2>1
  <1> QED
    BY <1>3, <1>4

-----------------------------------------------------------------------------

\* All the others are as they were.
OthersKeep(i) == \A j \in Instances \ {i} :
    /\ state'[j] = state[j] /\ loaded'[j] = loaded[j] /\ snapshot'[j] = snapshot[j]
    /\ history'[j] = history[j] /\ base'[j] = base[j] /\ flaws'[j] = flaws[j]

\* A step of one instance that leaves the database alone has to do right by that
\* instance only.
LEMMA ReadStep ==
    ASSUME IInv, NEW i \in Instances, Typed', OthersKeep(i),
           row' = row, trail' = trail, version' = version, taint' = taint,
           Cover(state'[i], loaded'[i], snapshot'[i], base'[i], version),
           Match(state'[i], loaded'[i], snapshot'[i], base'[i], flaws'[i], version, row),
           Benign(taint) => Recall(state'[i], loaded'[i], snapshot'[i], history'[i], base'[i], flaws'[i], version, trail)
    PROVE  IInv'
  <1>1. Typed' /\ (Benign(taint) => Agrees(trail, row))
    BY DEF IInv
  <1>2. ASSUME NEW j \in Instances
        PROVE  /\ Cover(state'[j], loaded'[j], snapshot'[j], base'[j], version')
               /\ Match(state'[j], loaded'[j], snapshot'[j], base'[j], flaws'[j], version', row')
               /\ Benign(taint') => Recall(state'[j], loaded'[j], snapshot'[j], history'[j], base'[j], flaws'[j], version', trail')
    <2>1. CASE j = i
      BY <2>1
    <2>2. CASE j # i
      <3>1. /\ state'[j] = state[j] /\ loaded'[j] = loaded[j] /\ snapshot'[j] = snapshot[j]
            /\ history'[j] = history[j] /\ base'[j] = base[j] /\ flaws'[j] = flaws[j]
        BY <2>2 DEF OthersKeep
      <3> QED
        BY <3>1 DEF IInv
    <2> QED
      BY <2>1, <2>2
  <1> QED
    BY <1>1, <1>2 DEF IInv

\* A step of one instance that writes the row: the others fall behind.
LEMMA WriteStep ==
    ASSUME IInv, NEW i \in Instances, Typed', OthersKeep(i),
           version' = version + 1, Benign(taint') => Benign(taint),
           Cover(state'[i], loaded'[i], snapshot'[i], base'[i], version'),
           Match(state'[i], loaded'[i], snapshot'[i], base'[i], flaws'[i], version', row'),
           Benign(taint') => /\ Recall(state'[i], loaded'[i], snapshot'[i], history'[i], base'[i], flaws'[i], version', trail')
                             /\ Agrees(trail', row')
    PROVE  IInv'
  <1>1. ASSUME NEW j \in Instances
        PROVE  /\ Cover(state'[j], loaded'[j], snapshot'[j], base'[j], version')
               /\ Match(state'[j], loaded'[j], snapshot'[j], base'[j], flaws'[j], version', row')
               /\ Benign(taint') => Recall(state'[j], loaded'[j], snapshot'[j], history'[j], base'[j], flaws'[j], version', trail')
    <2>1. CASE j = i
      BY <2>1
    <2>2. CASE j # i
      <3>1. /\ state'[j] = state[j] /\ loaded'[j] = loaded[j] /\ snapshot'[j] = snapshot[j]
            /\ history'[j] = history[j] /\ base'[j] = base[j] /\ flaws'[j] = flaws[j]
        BY <2>2 DEF OthersKeep
      <3>2. /\ Cover(state[j], loaded[j], snapshot[j], base[j], version)
            /\ Benign(taint) => Recall(state[j], loaded[j], snapshot[j], history[j], base[j], flaws[j], version, trail)
        BY DEF IInv
      <3>3. base[j] \in Nat /\ version \in Nat /\ base[j] <= version
        BY <3>2, HistoryAssumption DEF IInv, Typed, Cover
      <3>4. base[j] <= version' /\ base[j] # version'
        BY <3>3
      <3>5. Cover(state'[j], loaded'[j], snapshot'[j], base'[j], version')
        BY <3>1, <3>2, <3>3, <3>4 DEF Cover
      <3>6. Match(state'[j], loaded'[j], snapshot'[j], base'[j], flaws'[j], version', row')
        BY <3>1, <3>4 DEF Match
      <3>7. Benign(taint') => Recall(state'[j], loaded'[j], snapshot'[j], history'[j], base'[j], flaws'[j], version', trail')
        BY <3>1, <3>2, <3>4 DEF Recall
      <3> QED
        BY <3>5, <3>6, <3>7
    <2> QED
      BY <2>1, <2>2
  <1> QED
    BY <1>1 DEF IInv

\* What is known of one instance.
LEMMA OneFacts ==
    ASSUME IInv, NEW i \in Instances
    PROVE  /\ row \in [Fields -> Values] /\ value[i] \in [Fields -> Values] /\ loaded[i] \in SUBSET Fields
           /\ snapshot[i] \in Snapshots /\ history[i] \in Seq(Entries) /\ Len(history[i]) <= Cap
           /\ version \in Nat /\ base[i] \in Nat
           /\ flaws[i] \in SUBSET {"mixed", "phantom", "rebased"}
           /\ Cover(state[i], loaded[i], snapshot[i], base[i], version)
           /\ Match(state[i], loaded[i], snapshot[i], base[i], flaws[i], version, row)
           /\ Benign(taint) => /\ Recall(state[i], loaded[i], snapshot[i], history[i], base[i], flaws[i], version, trail)
                               /\ Agrees(trail, row)
  BY HistoryAssumption DEF IInv, Typed

LEMMA SomeTypes ==
    /\ NoSnapshot \in Snapshots /\ DOMAIN NoSnapshot = {}
    /\ \A D \in SUBSET Fields, f \in [Fields -> Values] : [g \in D |-> f[g]] \in Snapshots
    /\ [Fields -> Values] \subseteq Snapshots
    /\ <<>> \in Seq(Entries) /\ Len(<<>>) = 0 /\ Len(<<>>) <= Cap
    /\ [f \in Fields |-> Blank] \in [Fields -> Values]
    /\ 0 \in 0..MaxWrites /\ 0 \in 0..MaxFailures /\ 0 \in 0..MaxEdits
  <1>1. NoSnapshot \in [{} -> Values]
    BY DEF NoSnapshot
  <1>2. \A D \in SUBSET Fields : [D -> Values] \subseteq Snapshots
    BY DEF Snapshots
  <1>3. \A D \in SUBSET Fields, f \in [Fields -> Values] : [g \in D |-> f[g]] \in [D -> Values]
    OBVIOUS
  <1>4. <<>> \in Seq(Entries) /\ Len(<<>>) = 0
    BY EmptySeq
  <1>5. DOMAIN NoSnapshot = {}
    BY DEF NoSnapshot
  <1>6. 0 <= Cap /\ 0 \in 0..MaxWrites /\ 0 \in 0..MaxFailures /\ 0 \in 0..MaxEdits /\ Blank \in Values
    BY HistoryAssumption
  <1>7. [f \in Fields |-> Blank] \in [Fields -> Values]
    BY <1>6
  <1>8. NoSnapshot \in Snapshots
    BY <1>1, <1>2
  <1>9. \A D \in SUBSET Fields, f \in [Fields -> Values] : [g \in D |-> f[g]] \in Snapshots
    BY <1>2, <1>3
  <1> QED
    BY <1>2, <1>4, <1>5, <1>6, <1>7, <1>8, <1>9

LEMMA InitInv == Init => IInv
  <1> SUFFICES ASSUME Init PROVE IInv
    OBVIOUS
  <1>1. Typed
    BY SomeTypes DEF Init, Typed
  <1>2. ASSUME NEW i \in Instances
        PROVE  /\ Cover(state[i], loaded[i], snapshot[i], base[i], version)
               /\ Match(state[i], loaded[i], snapshot[i], base[i], flaws[i], version, row)
               /\ Recall(state[i], loaded[i], snapshot[i], history[i], base[i], flaws[i], version, trail)
    BY DEF Init, Cover, Match, Recall
  <1>3. Agrees(trail, row)
    <2>1. trail = <<>> /\ Len(trail) = 0 /\ 1..Len(trail) = {}
      BY SomeTypes DEF Init
    <2> QED
      BY <2>1 DEF Agrees, Explains
  <1> QED
    BY <1>1, <1>2, <1>3 DEF IInv

LEMMA NewStep == ASSUME IInv, NEW i \in Instances, New(i) PROVE IInv'
  <1>1. PICK v \in [Fields -> Values] : value' = [value EXCEPT ![i] = v]
    BY DEF New
  <1>2. /\ row' = row /\ trail' = trail /\ version' = version /\ last' = last /\ taint' = taint
        /\ failures' = failures /\ edits' = edits
    BY DEF New, database, ghosts
  <1>3. Typed'
    BY <1>1, <1>2, SomeTypes DEF New, IInv, Typed
  <1>4. /\ state'[i] = "adding" /\ loaded'[i] = Fields /\ snapshot'[i] = NoSnapshot
        /\ history'[i] = <<>> /\ base'[i] = 0 /\ flaws'[i] = {}
    BY DEF New, IInv, Typed
  <1>5. OthersKeep(i)
    BY DEF New, OthersKeep, IInv, Typed
  <1>6. Cover(state'[i], loaded'[i], snapshot'[i], base'[i], version)
    BY <1>4, OneFacts DEF Cover
  <1>7. Match(state'[i], loaded'[i], snapshot'[i], base'[i], flaws'[i], version, row)
    BY <1>4 DEF Match
  <1>8. Recall(state'[i], loaded'[i], snapshot'[i], history'[i], base'[i], flaws'[i], version, trail)
    BY <1>4 DEF Recall
  <1> QED
    BY <1>2, <1>3, <1>5, <1>6, <1>7, <1>8, ReadStep

\* What was just read matches the row, and so does the trail read with it.
LEMMA FreshFacts ==
    ASSUME IInv, version > 0, NEW D \in SUBSET Fields, NEW sn, sn = [f \in D |-> row[f]]
    PROVE  /\ Cover("loaded", D, sn, version, version)
           /\ Match("loaded", D, sn, version, {}, version, row)
           /\ Benign(taint) => Recall("loaded", D, sn, trail, version, {}, version, trail)
  <1>1. row \in [Fields -> Values] /\ version \in Nat /\ (Benign(taint) => Agrees(trail, row))
    BY HistoryAssumption DEF IInv, Typed
  <1>2. sn \in [D -> Values] /\ \A f \in D : sn[f] = row[f]
    BY <1>1
  <1> QED
    BY <1>1, <1>2 DEF Cover, Match, Recall, Agrees

LEMMA LoadStep == ASSUME IInv, NEW i \in Instances, Load(i) PROVE IInv'
  <1>1. PICK fs \in SUBSET Fields :
          /\ loaded' = [loaded EXCEPT ![i] = fs]
          /\ snapshot' = [snapshot EXCEPT ![i] = [f \in fs |-> row[f]]]
          /\ value' = [value EXCEPT ![i] = [f \in Fields |-> IF f \in fs THEN row[f] ELSE Blank]]
    BY ZenonT(30) DEF Load
  <1>2. /\ row' = row /\ trail' = trail /\ version' = version /\ last' = last /\ taint' = taint
        /\ failures' = failures /\ edits' = edits
    BY DEF Load, database, ghosts
  <1>3. /\ row \in [Fields -> Values]
        /\ [f \in fs |-> row[f]] \in Snapshots
        /\ [f \in Fields |-> IF f \in fs THEN row[f] ELSE Blank] \in [Fields -> Values]
    BY SomeTypes, OneFacts, HistoryAssumption
  <1>4. Typed'
    BY <1>1, <1>2, <1>3 DEF Load, IInv, Typed
  <1>5. /\ state'[i] = "loaded" /\ loaded'[i] = fs /\ snapshot'[i] = [f \in fs |-> row[f]]
        /\ history'[i] = trail /\ base'[i] = version /\ flaws'[i] = {}
    BY <1>1 DEF Load, IInv, Typed
  <1>6. OthersKeep(i)
    BY <1>1 DEF Load, OthersKeep, IInv, Typed
  <1> DEFINE sn == [f \in fs |-> row[f]]
  <1>7. /\ Cover("loaded", fs, sn, version, version)
        /\ Match("loaded", fs, sn, version, {}, version, row)
        /\ Benign(taint) => Recall("loaded", fs, sn, trail, version, {}, version, trail)
    BY FreshFacts DEF Load
  <1> QED
    BY <1>2, <1>4, <1>5, <1>6, <1>7, ReadStep

\* An instance built by hand has nothing to be true to yet.
LEMMA HandBuiltStep == ASSUME IInv, NEW i \in Instances, HandBuilt(i) PROVE IInv'
  <1>1. PICK v \in [Fields -> Values] : value' = [value EXCEPT ![i] = v]
    BY DEF HandBuilt
  <1>2. /\ row' = row /\ trail' = trail /\ version' = version /\ last' = last /\ taint' = taint
        /\ failures' = failures /\ version > 0
    BY DEF HandBuilt, database
  <1>3. edits' \in 0..MaxEdits
    BY HistoryAssumption DEF HandBuilt, IInv, Typed
  <1>4. Typed'
    BY <1>1, <1>2, <1>3, SomeTypes DEF HandBuilt, IInv, Typed
  <1>5. OthersKeep(i)
    BY DEF HandBuilt, OthersKeep, IInv, Typed
  <1>6. /\ state'[i] = "loaded" /\ loaded'[i] = Fields /\ snapshot'[i] = NoSnapshot
        /\ history'[i] = <<>> /\ base'[i] = 0 /\ Len(<<>>) = 0
    BY SomeTypes DEF HandBuilt, IInv, Typed
  <1>7. Cover(state'[i], loaded'[i], snapshot'[i], base'[i], version)
    BY <1>2, <1>6, OneFacts DEF Cover
  <1>8. Match(state'[i], loaded'[i], snapshot'[i], base'[i], flaws'[i], version, row)
    BY <1>2, <1>6 DEF Match
  <1>9. Recall(state'[i], loaded'[i], snapshot'[i], history'[i], base'[i], flaws'[i], version, trail)
    BY <1>2, <1>6 DEF Recall, Explains
  <1> QED
    BY <1>2, <1>4, <1>5, <1>7, <1>8, <1>9, ReadStep

LEMMA RefreshStep == ASSUME IInv, NEW i \in Instances, Refresh(i) PROVE IInv'
  <1>1. /\ row' = row /\ trail' = trail /\ version' = version /\ last' = last /\ taint' = taint
        /\ failures' = failures /\ edits' = edits /\ state' = state
    BY DEF Refresh, database, ghosts
  <1>2. row \in [Fields -> Values] /\ row \in Snapshots
    BY SomeTypes, OneFacts
  <1>3. Typed'
    BY <1>1, <1>2 DEF Refresh, IInv, Typed
  <1>4. /\ state'[i] = "loaded" /\ loaded'[i] = Fields /\ snapshot'[i] = row
        /\ history'[i] = trail /\ base'[i] = version /\ flaws'[i] = {}
    BY <1>1 DEF Refresh, IInv, Typed
  <1>5. OthersKeep(i)
    BY <1>1 DEF Refresh, OthersKeep, IInv, Typed
  <1>6. row = [f \in Fields |-> row[f]]
    BY <1>2
  <1>7. /\ Cover("loaded", Fields, row, version, version)
        /\ Match("loaded", Fields, row, version, {}, version, row)
        /\ Benign(taint) => Recall("loaded", Fields, row, trail, version, {}, version, trail)
    <2>1. version > 0
      BY OneFacts DEF Refresh, Cover
    <2> QED
      BY <1>6, <2>1, FreshFacts
  <1> QED
    BY <1>1, <1>3, <1>4, <1>5, <1>7, ReadStep

LEMMA DropStep == ASSUME IInv, NEW i \in Instances, Drop(i) PROVE IInv'
  <1>1. /\ row' = row /\ trail' = trail /\ version' = version /\ last' = last /\ taint' = taint
        /\ failures' = failures /\ edits' = edits
    BY DEF Drop, database, ghosts
  <1>2. Typed'
    BY <1>1, SomeTypes DEF Drop, IInv, Typed
  <1>3. /\ state'[i] = "none" /\ loaded'[i] = Fields /\ snapshot'[i] = NoSnapshot
        /\ base'[i] = 0
    BY DEF Drop, IInv, Typed
  <1>4. OthersKeep(i)
    BY DEF Drop, OthersKeep, IInv, Typed
  <1>5. Cover(state'[i], loaded'[i], snapshot'[i], base'[i], version)
    BY <1>3, OneFacts DEF Cover
  <1>6. Match(state'[i], loaded'[i], snapshot'[i], base'[i], flaws'[i], version, row)
    BY <1>3 DEF Match
  <1>7. Recall(state'[i], loaded'[i], snapshot'[i], history'[i], base'[i], flaws'[i], version, trail)
    BY <1>3 DEF Recall
  <1> QED
    BY <1>1, <1>2, <1>4, <1>5, <1>6, <1>7, ReadStep

LEMMA EditStep == ASSUME IInv, NEW i \in Instances, NEW f \in Fields, Edit(i, f) PROVE IInv'
  <1>1. PICK v \in Values : value' = [value EXCEPT ![i][f] = v]
    BY DEF Edit
  <1>2. /\ row' = row /\ trail' = trail /\ version' = version /\ last' = last /\ taint' = taint
        /\ state' = state /\ loaded' = loaded /\ snapshot' = snapshot /\ history' = history
        /\ base' = base /\ flaws' = flaws /\ failures' = failures
    BY DEF Edit, database
  <1>3. value' \in [Instances -> [Fields -> Values]]
    BY <1>1 DEF IInv, Typed
  <1>4. edits' \in 0..MaxEdits
    BY HistoryAssumption DEF Edit, IInv, Typed
  <1>5. Typed'
    BY <1>2, <1>3, <1>4 DEF IInv, Typed
  <1>6. OthersKeep(i)
    BY <1>2 DEF OthersKeep
  <1> QED
    BY <1>2, <1>5, <1>6, OneFacts, ReadStep

\* Reading one column again keeps the snapshot true to the row unless it swallows
\* a pending edit.
LEMMA RefreshFieldStep == ASSUME IInv, NEW i \in Instances, NEW f \in Fields, RefreshField(i, f) PROVE IInv'
  <1> DEFINE sn == [FullValue(i) EXCEPT ![f] = row[f]]
             fl == flaws[i] \cup ReadAgain(i, {f} \cup (Fields \ loaded[i]))
  <1>1. /\ row' = row /\ trail' = trail /\ version' = version /\ last' = last /\ taint' = taint
        /\ failures' = failures /\ edits' = edits /\ state' = state /\ history' = history /\ base' = base
    BY DEF RefreshField, database, ghosts
  <1>2. state[i] = "loaded" /\ FullValue(i) \in [Fields -> Values] /\ row \in [Fields -> Values]
    BY FullFacts, OneFacts DEF RefreshField
  <1>3. sn \in [Fields -> Values] /\ sn \in Snapshots
    BY <1>2, SomeTypes
  <1>4. ReadAgain(i, {f} \cup (Fields \ loaded[i])) \subseteq {"mixed", "rebased"}
    BY DEF ReadAgain
  <1>5. value' = [value EXCEPT ![i] = sn] /\ value'[i] = sn
    BY DEF RefreshField, IInv, Typed
  <1>6. /\ snapshot' = [snapshot EXCEPT ![i] = sn]
        /\ flaws' = [flaws EXCEPT ![i] = fl]
        /\ loaded' = [loaded EXCEPT ![i] = Fields]
    BY <1>5 DEF RefreshField
  <1>7. fl \in SUBSET {"mixed", "phantom", "rebased"}
    BY <1>4, OneFacts
  <1>8. "rebased" \notin fl /\ base[i] = version => \A g \in Fields : sn[g] = IF g \in loaded[i] THEN IF g = f THEN row[f] ELSE snapshot[i][g] ELSE row[g]
    <2> SUFFICES ASSUME "rebased" \notin fl, base[i] = version, NEW g \in Fields
                 PROVE  sn[g] = IF g \in loaded[i] THEN IF g = f THEN row[f] ELSE snapshot[i][g] ELSE row[g]
      OBVIOUS
    <2>1. Pending(i) \subseteq {f} \cup (Fields \ loaded[i])
      BY DEF ReadAgain
    <2>2. snapshot[i] \in [loaded[i] -> Values]
      BY <1>2, OneFacts DEF Cover
    <2>3. g \in loaded[i] /\ g # f => snapshot[i][g] = value[i][g]
      BY <2>1, <2>2 DEF Pending
    <2> QED
      BY <1>2, <2>3 DEF FullValue
  <1>9. "mixed" \notin fl => base[i] = version
    BY DEF ReadAgain
  <1> HIDE DEF sn, fl
  <1>10. Typed'
    BY <1>1, <1>3, <1>5, <1>6, <1>7 DEF IInv, Typed
  <1>11. OthersKeep(i)
    BY <1>1, <1>6 DEF OthersKeep, IInv, Typed
  <1>12. /\ state'[i] = "loaded" /\ loaded'[i] = Fields /\ snapshot'[i] = sn
         /\ history'[i] = history[i] /\ base'[i] = base[i] /\ flaws'[i] = fl
    BY <1>1, <1>2, <1>6 DEF IInv, Typed
  <1>13. flaws[i] \subseteq fl
    BY DEF fl
  <1>14. Cover(state'[i], loaded'[i], snapshot'[i], base'[i], version)
    BY <1>2, <1>3, <1>12, OneFacts DEF Cover
  <1>15. Match(state'[i], loaded'[i], snapshot'[i], base'[i], flaws'[i], version, row)
    BY <1>2, <1>8, <1>12, <1>13, OneFacts DEF Match
  <1>16. Benign(taint) => Recall(state'[i], loaded'[i], snapshot'[i], history'[i], base'[i], flaws'[i], version, trail)
    <2> SUFFICES ASSUME Benign(taint), fl = {}
                 PROVE  base[i] # 0 /\ history[i] = trail /\ \A g \in Fields : Explains(trail, g, sn[g])
      BY <1>12 DEF Recall
    <2>1. flaws[i] = {} /\ base[i] = version /\ base[i] # 0
      BY <1>2, <1>9, <1>13, OneFacts DEF Cover
    <2>2. history[i] = trail
      BY <1>2, <2>1, OneFacts DEF Recall
    <2>3. \A g \in Fields : sn[g] = row[g]
      BY <1>2, <1>8, <2>1, OneFacts DEF Match
    <2> QED
      BY <2>1, <2>2, <2>3, OneFacts DEF Agrees
  <1> QED
    BY <1>1, <1>10, <1>11, <1>14, <1>15, <1>16, ReadStep

\* A failed save leaves the diff as it was; if it recorded anything, it leaves the
\* flaw that keeps the instance out of Recall.
LEMMA SaveFailsStep ==
    ASSUME IInv, NEW i \in Instances, NEW fs \in SUBSET Fields, SaveFails(i, fs)
    PROVE  IInv'
  <1> DEFINE fl == FlawsOnRead(i) \cup IF Recorded(i, fs) THEN {"phantom"} ELSE {}
  <1>1. /\ row' = row /\ trail' = trail /\ version' = version /\ last' = last /\ taint' = taint
        /\ state' = state /\ base' = base /\ edits' = edits
    BY DEF SaveFails, database
  <1>2. /\ state[i] # "none"
        /\ value' = [value EXCEPT ![i] = FullValue(i)]
        /\ loaded' = [loaded EXCEPT ![i] = Fields]
        /\ history' = [history EXCEPT ![i] = NewHistory(i, fs)]
        /\ snapshot' = [snapshot EXCEPT ![i] = FullSnapshot(i)]
        /\ flaws' = [flaws EXCEPT ![i] = fl]
    BY DEF SaveFails, Fetch
  <1>3. failures' \in 0..MaxFailures
    BY HistoryAssumption DEF SaveFails, IInv, Typed
  <1>4. state[i] \in {"adding", "loaded"}
    BY <1>2 DEF IInv, Typed
  <1>5. /\ FullValue(i) \in [Fields -> Values]
        /\ FullSnapshot(i) \in Snapshots
        /\ fl \in SUBSET {"mixed", "phantom", "rebased"}
    BY <1>2, <1>4, FullFacts, SomeTypes
  <1>6. NewHistory(i, fs) \in Seq(Entries) /\ Len(NewHistory(i, fs)) <= Cap
    BY <1>2, NewHistoryFacts
  <1>7. fl = {} => FlawsOnRead(i) = {} /\ ~Recorded(i, fs)
    OBVIOUS
  <1>8. "rebased" \notin fl => "rebased" \notin FlawsOnRead(i)
    OBVIOUS
  <1> HIDE DEF fl
  <1>9. Typed'
    BY <1>1, <1>2, <1>3, <1>5, <1>6 DEF IInv, Typed
  <1>10. OthersKeep(i)
    BY <1>1, <1>2 DEF OthersKeep, IInv, Typed
  <1>11. /\ state'[i] = state[i] /\ loaded'[i] = Fields /\ snapshot'[i] = FullSnapshot(i)
         /\ history'[i] = NewHistory(i, fs) /\ base'[i] = base[i] /\ flaws'[i] = fl
    BY <1>1, <1>2 DEF IInv, Typed
  <1>12. Cover(state'[i], loaded'[i], snapshot'[i], base'[i], version)
    BY <1>2, <1>4, <1>11, OneFacts, FullFacts DEF Cover
  <1>13. Match(state'[i], loaded'[i], snapshot'[i], base'[i], flaws'[i], version, row)
    <2> SUFFICES ASSUME state[i] = "loaded", base[i] = version, "rebased" \notin fl
                 PROVE  \A g \in Fields : FullSnapshot(i)[g] = row[g]
      BY <1>11 DEF Match
    <2> QED
      BY <1>2, <1>8, FullFacts
  <1>14. Benign(taint) => Recall(state'[i], loaded'[i], snapshot'[i], history'[i], base'[i], flaws'[i], version, trail)
    <2> SUFFICES ASSUME Benign(taint), fl = {}
                 PROVE  /\ state[i] = "adding" => history'[i] = <<>>
                        /\ state[i] = "loaded" =>
                             /\ base[i] = version => history'[i] = trail
                             /\ base[i] = 0 => history'[i] = <<>> /\ FullSnapshot(i) = NoSnapshot
                             /\ \A g \in Fields : Explains(history'[i], g, FullSnapshot(i)[g])
      BY <1>11 DEF Recall
    <2>1. history'[i] = history[i]
      BY <1>2, <1>7, <1>11, NewHistoryFacts
    <2> QED
      BY <1>2, <1>7, <2>1, FullFacts
  <1> QED
    BY <1>1, <1>9, <1>10, <1>12, <1>13, <1>14, ReadStep

\* The trail a save appended to explains what the save leaves in the columns, and
\* what it did not write as it did before.
LEMMA AppendedExplains ==
    ASSUME IInv, NEW i \in Instances, state[i] # "none", NEW fs \in SUBSET Fields,
           Adding(i) => fs = Fields, Benign(taint), FlawsOnRead(i) = {}, NEW f \in Fields
    PROVE  Explains(NewHistory(i, fs), f, IF f \in fs THEN FullValue(i)[f] ELSE FullSnapshot(i)[f])
  <1> DEFINE v == IF f \in fs THEN FullValue(i)[f] ELSE FullSnapshot(i)[f]
  <1>1. state[i] \in {"adding", "loaded"}
    BY DEF IInv, Typed
  <1>2. CASE \E c \in Changes(i, fs) : c.field = f
    <2>1. \E c \in Changes(i, fs) : c.field = f /\ c.new = FullValue(i)[f]
      BY <1>2, ChangesFacts
    <2>2. f \in fs
      <3>1. CASE Adding(i)
        BY <3>1
      <3>2. CASE ~Adding(i)
        BY <1>2, <3>2, ChangesFacts DEF Change
      <3> QED
        BY <3>1, <3>2
    <2> QED
      BY <2>1, <2>2, NewHistoryFacts
  <1>3. CASE ~\E c \in Changes(i, fs) : c.field = f
    <2>1. CASE Adding(i)
      <3>1. history[i] = <<>> /\ 1..Len(history[i]) = {}
        BY <2>1, FullFacts, SomeTypes DEF Adding
      <3>2. Explains(history[i], f, v)
        BY <3>1 DEF Explains
      <3> QED
        BY <1>3, <3>2, NewHistoryFacts
    <2>2. CASE ~Adding(i) /\ base[i] = 0
      <3>1. history[i] = <<>> /\ 1..Len(history[i]) = {}
        BY <1>1, <2>2, FullFacts, SomeTypes DEF Adding
      <3>2. Explains(history[i], f, v)
        BY <3>1 DEF Explains
      <3> QED
        BY <1>3, <3>2, NewHistoryFacts
    <2>3. CASE ~Adding(i) /\ base[i] # 0
      <3>0. DOMAIN FullSnapshot(i) = Fields
        BY <1>1, <2>3, FullFacts DEF Adding
      <3>1. Explains(history[i], f, FullSnapshot(i)[f])
        BY <1>1, <2>3, FullFacts DEF Adding
      <3>2. v = FullSnapshot(i)[f]
        <4> SUFFICES ASSUME f \in fs, FullSnapshot(i)[f] # FullValue(i)[f] PROVE FALSE
          OBVIOUS
        <4>1. Change(f, FullSnapshot(i)[f], FullValue(i)[f]) \in Changes(i, fs)
          BY <2>3, <3>0, ChangesFacts
        <4> QED
          BY <1>3, <4>1 DEF Change
      <3> QED
        BY <1>3, <3>1, <3>2, NewHistoryFacts
    <2> QED
      BY <2>1, <2>2, <2>3
  <1> QED
    BY <1>2, <1>3

\* A save in full or in part, as the code calls it.
ASaves(i, fs, partial) ==
    /\ partial \in BOOLEAN /\ fs \in SUBSET Fields /\ (~partial => fs = Fields)
    /\ Save(i, fs, partial)

\* What a save writes and leaves, once the deferred columns were read.
LEMMA SaveFacts ==
    ASSUME IInv, NEW i \in Instances, NEW fs, NEW partial, ASaves(i, fs, partial)
    PROVE  /\ state[i] \in {"adding", "loaded"} /\ (Adding(i) => fs = Fields /\ ~partial)
           /\ row' \in [Fields -> Values]
           /\ \A f \in Fields : row'[f] = IF f \in fs THEN FullValue(i)[f] ELSE row[f]
           /\ Resynced(i, fs, partial) \in Snapshots
           /\ ~partial \/ base[i] # 0 =>
                /\ Resynced(i, fs, partial) \in [Fields -> Values]
                /\ \A f \in Fields : Resynced(i, fs, partial)[f] = IF f \in fs THEN FullValue(i)[f] ELSE FullSnapshot(i)[f]
           /\ base[i] = 0 /\ partial => base[i] # version
           /\ FlawsOnRead(i) \subseteq last' /\ taint' = taint \cup last'
           /\ base[i] # version => IF partial THEN last' = FlawsOnRead(i) \cup {"stale", "mixed"}
                                              ELSE last' = FlawsOnRead(i) \cup {"stale"}
           /\ base[i] = version => last' = FlawsOnRead(i)
           /\ ~Recorded(i, fs) => ~Adding(i)
  <1>1. /\ partial \in BOOLEAN /\ fs \in SUBSET Fields /\ (~partial => fs = Fields)
        /\ state[i] \in {"adding", "loaded"} /\ (Adding(i) => ~partial)
    BY DEF ASaves, Save, IInv, Typed
  <1>2. /\ FullValue(i) \in [Fields -> Values] /\ row \in [Fields -> Values]
        /\ [Fields -> Values] \subseteq Snapshots /\ FullSnapshot(i) \in Snapshots
        /\ ~Adding(i) /\ base[i] # 0 => FullSnapshot(i) \in [Fields -> Values] /\ DOMAIN FullSnapshot(i) = Fields
        /\ ~Adding(i) /\ base[i] = 0 => base[i] # version
    BY <1>1, FullFacts, OneFacts, SomeTypes DEF Adding
  <1>3. row' = [f \in Fields |-> IF f \in fs THEN FullValue(i)[f] ELSE row[f]]
    BY DEF ASaves, Save
  <1>4. /\ row' \in [Fields -> Values]
        /\ \A f \in Fields : row'[f] = IF f \in fs THEN FullValue(i)[f] ELSE row[f]
    BY <1>2, <1>3
  <1>5. CASE ~partial
    <2>1. Resynced(i, fs, partial) = FullValue(i) /\ fs = Fields
      BY <1>1, <1>5 DEF Resynced
    <2> QED
      BY <1>1, <1>2, <1>4, <1>5, <2>1 DEF ASaves, Save, Recorded
  <1>6. CASE partial
    <2> DEFINE D == DOMAIN FullSnapshot(i) \cup fs
    <2>1. ~Adding(i) /\ D \in SUBSET Fields /\ \A f \in DOMAIN FullSnapshot(i) : FullSnapshot(i)[f] \in Values
      BY <1>1, <1>2, <1>6 DEF Snapshots
    <2>2. Resynced(i, fs, partial) = [f \in D |-> IF f \in fs THEN FullValue(i)[f] ELSE FullSnapshot(i)[f]]
      BY <1>6, <2>1 DEF Resynced
    <2>3. Resynced(i, fs, partial) \in [D -> Values]
      BY <1>1, <1>2, <2>1, <2>2
    <2>4. Resynced(i, fs, partial) \in Snapshots
      BY <2>1, <2>3 DEF Snapshots
    <2>5. ASSUME base[i] # 0
          PROVE  /\ Resynced(i, fs, partial) \in [Fields -> Values]
                 /\ \A f \in Fields : Resynced(i, fs, partial)[f] = IF f \in fs THEN FullValue(i)[f] ELSE FullSnapshot(i)[f]
      BY <1>1, <1>2, <2>1, <2>2, <2>3, <2>5
    <2> QED
      BY <1>1, <1>2, <1>4, <1>6, <2>1, <2>4, <2>5 DEF ASaves, Save
  <1> QED
    BY <1>1, <1>5, <1>6

\* A save of an up-to-date instance leaves its snapshot equal to the row it wrote;
\* one of a stale instance does so if it writes every column.
LEMMA SaveStep ==
    ASSUME IInv, NEW i \in Instances, NEW fs, NEW partial, ASaves(i, fs, partial)
    PROVE  IInv'
  <1> DEFINE h == NewHistory(i, fs)
             sn == Resynced(i, fs, partial)
             b == IF partial /\ base[i] # version THEN base[i] ELSE version'
             fl == IF partial THEN FlawsOnRead(i) ELSE {}
  <1>1. /\ fs \in SUBSET Fields /\ (~partial => fs = Fields)
        /\ state[i] # "none" /\ partial \in BOOLEAN
        /\ value' = [value EXCEPT ![i] = FullValue(i)]
        /\ loaded' = [loaded EXCEPT ![i] = Fields]
        /\ trail' = IF WritesTrail(i, fs, partial) THEN h ELSE trail
        /\ history' = [history EXCEPT ![i] = h]
        /\ snapshot' = [snapshot EXCEPT ![i] = sn]
        /\ state' = [state EXCEPT ![i] = "loaded"]
        /\ version' = version + 1 /\ version < MaxWrites
        /\ flaws' = [flaws EXCEPT ![i] = fl]
        /\ failures' = failures /\ edits' = edits
    BY DEF ASaves, Save, Fetch
  <1>2. base' = [base EXCEPT ![i] = b]
    BY DEF ASaves, Save, IInv, Typed
  <1>3. /\ FullValue(i) \in [Fields -> Values] /\ row' \in [Fields -> Values]
        /\ sn \in Snapshots /\ (~partial \/ base[i] # 0 => sn \in [Fields -> Values])
        /\ FlawsOnRead(i) \in SUBSET {"mixed", "phantom", "rebased"}
        /\ fl \in SUBSET {"mixed", "phantom", "rebased"}
    BY <1>1, SaveFacts, FullFacts, SomeTypes
  <1>4. h \in Seq(Entries) /\ Len(h) <= Cap
    BY <1>1, NewHistoryFacts
  <1>5. /\ version \in 0..MaxWrites /\ version' \in 0..MaxWrites
        /\ b \in 0..MaxWrites /\ b <= version' /\ version' > 0
        /\ b = version' => ~partial \/ base[i] = version
        /\ b # 0 => ~partial \/ base[i] # 0
    BY <1>1, OneFacts, SaveFacts, HistoryAssumption DEF IInv, Typed, Cover
  <1>6. last' \subseteq {"stale", "mixed", "phantom", "rebased"} /\ last' \subseteq taint'
    BY <1>1, <1>3, SaveFacts
  <1>7. trail' \in Seq(Entries) /\ Len(trail') <= Cap
    BY <1>1, <1>4 DEF IInv, Typed
  <1>8. ASSUME Benign(taint')
        PROVE  /\ Benign(taint) /\ FlawsOnRead(i) = {}
               /\ partial => base[i] = version
    <2>1. FlawsOnRead(i) \subseteq taint' /\ taint \subseteq taint' /\ taint' \subseteq {"stale"}
      BY <1>8, SaveFacts DEF Benign
    <2>2. FlawsOnRead(i) = {}
      BY <1>3, <2>1
    <2>3. ASSUME partial, base[i] # version PROVE "mixed" \in taint'
      <3>1. last' = FlawsOnRead(i) \cup {"stale", "mixed"}
        BY <2>3, SaveFacts
      <3>2. taint' = taint \cup last'
        BY SaveFacts
      <3> QED
        BY <3>1, <3>2
    <2> QED
      BY <2>1, <2>2, <2>3 DEF Benign
  <1> HIDE DEF h, sn, b, fl
  <1>9. Typed'
    BY <1>1, <1>2, <1>3, <1>4, <1>5, <1>6, <1>7 DEF IInv, Typed
  <1>10. OthersKeep(i)
    BY <1>1, <1>2 DEF OthersKeep, IInv, Typed
  <1>11. /\ state'[i] = "loaded" /\ loaded'[i] = Fields /\ snapshot'[i] = sn
         /\ history'[i] = h /\ base'[i] = b /\ flaws'[i] = fl
    BY <1>1, <1>2 DEF IInv, Typed
  <1>12. Cover(state'[i], loaded'[i], snapshot'[i], base'[i], version')
    BY <1>3, <1>5, <1>11 DEF Cover
  <1>13. ASSUME b = version', "rebased" \notin fl PROVE \A f \in Fields : sn[f] = row'[f]
    <2>0. ~partial \/ base[i] # 0
      BY <1>5, <1>13
    <2>1. \A f \in Fields : /\ sn[f] = IF f \in fs THEN FullValue(i)[f] ELSE FullSnapshot(i)[f]
                            /\ row'[f] = IF f \in fs THEN FullValue(i)[f] ELSE row[f]
      BY <2>0, SaveFacts DEF sn
    <2>2. CASE ~partial
      BY <1>1, <2>1, <2>2
    <2>3. CASE partial
      <3>1. state[i] = "loaded" /\ base[i] = version
        BY <1>5, <1>13, <2>3, SaveFacts DEF Adding
      <3>2. "rebased" \notin FlawsOnRead(i)
        BY <1>13, <2>3 DEF fl
      <3>3. \A f \in Fields : FullSnapshot(i)[f] = row[f]
        BY <3>1, <3>2, FullFacts
      <3> QED
        BY <2>1, <3>3
    <2> QED
      BY <2>2, <2>3
  <1>14. Match(state'[i], loaded'[i], snapshot'[i], base'[i], flaws'[i], version', row')
    BY <1>11, <1>13 DEF Match
  <1>15. ASSUME Benign(taint')
         PROVE  /\ Recall(state'[i], loaded'[i], snapshot'[i], history'[i], base'[i], flaws'[i], version', trail')
                /\ Agrees(trail', row')
    <2>1. /\ Benign(taint) /\ FlawsOnRead(i) = {} /\ (partial => base[i] = version)
          /\ fl = {} /\ b = version'
      BY <1>8, <1>15 DEF fl, b
    <2>2. \A f \in Fields : sn[f] = row'[f]
      BY <1>13, <2>1
    <2>3. \A f \in Fields : Explains(h, f, sn[f])
      <3> SUFFICES ASSUME NEW f \in Fields PROVE Explains(h, f, sn[f])
        OBVIOUS
      <3>1. sn[f] = IF f \in fs THEN FullValue(i)[f] ELSE FullSnapshot(i)[f]
        BY <1>5, <2>1, SaveFacts DEF sn
      <3>2. Adding(i) => fs = Fields
        BY SaveFacts
      <3>3. Explains(h, f, IF f \in fs THEN FullValue(i)[f] ELSE FullSnapshot(i)[f])
        BY <1>1, <2>1, <3>2, AppendedExplains DEF h
      <3> QED
        BY <3>1, <3>3
    <2>4. trail' = h
      <3>1. CASE WritesTrail(i, fs, partial)
        BY <1>1, <3>1
      <3>2. CASE ~WritesTrail(i, fs, partial)
        <4>1. partial /\ ~Recorded(i, fs) /\ state[i] = "loaded"
          BY <3>2, SaveFacts DEF WritesTrail, Adding
        <4>2. h = history[i]
          BY <1>1, <4>1, NewHistoryFacts DEF h
        <4>3. history[i] = trail
          BY <2>1, <4>1, FullFacts
        <4> QED
          BY <1>1, <3>2, <4>2, <4>3
      <3> QED
        BY <3>1, <3>2
    <2> QED
      BY <1>5, <1>11, <2>1, <2>2, <2>3, <2>4 DEF Recall, Agrees
  <1> QED
    BY <1>1, <1>8, <1>9, <1>10, <1>12, <1>14, <1>15, WriteStep

LEMMA NextInv == IInv /\ [Next]_vars => IInv'
  <1> SUFFICES ASSUME IInv, [Next]_vars PROVE IInv'
    OBVIOUS
  <1>1. CASE UNCHANGED vars
    BY <1>1 DEF vars, database, instance, ghosts, IInv, Typed
  <1>2. CASE Next
    <2>1. PICK i \in Instances :
            \/ New(i) \/ Load(i) \/ HandBuilt(i) \/ Refresh(i) \/ Drop(i)
            \/ \E f \in Fields : Edit(i, f) \/ RefreshField(i, f)
            \/ Save(i, Fields, FALSE)
            \/ SaveFails(i, Fields)
            \/ \E fs \in SUBSET Fields \ {{}} : Save(i, fs, TRUE) \/ SaveFails(i, fs)
      BY <1>2 DEF Next
    <2>2. CASE New(i)
      BY <2>2, NewStep
    <2>3. CASE Load(i)
      BY <2>3, LoadStep
    <2>4. CASE Refresh(i)
      BY <2>4, RefreshStep
    <2>5. CASE Drop(i)
      BY <2>5, DropStep
    <2>6. ASSUME NEW f \in Fields, Edit(i, f) PROVE IInv'
      BY <2>6, EditStep
    <2>7. ASSUME NEW f \in Fields, RefreshField(i, f) PROVE IInv'
      BY <2>7, RefreshFieldStep
    <2>8. ASSUME NEW fs, NEW partial, ASaves(i, fs, partial) PROVE IInv'
      BY <2>8, SaveStep
    <2>9. ASSUME NEW fs \in SUBSET Fields, SaveFails(i, fs) PROVE IInv'
      BY <2>9, SaveFailsStep
    <2>10. CASE HandBuilt(i)
      BY <2>10, HandBuiltStep
    <2>11. /\ Save(i, Fields, FALSE) => ASaves(i, Fields, FALSE)
           /\ \A fs \in SUBSET Fields : Save(i, fs, TRUE) => ASaves(i, fs, TRUE)
      BY DEF ASaves
    <2> QED
      BY <2>1, <2>2, <2>3, <2>4, <2>5, <2>6, <2>7, <2>8, <2>9, <2>10, <2>11
  <1> QED
    BY <1>1, <1>2

THEOREM Invariance == Spec => []IInv
  BY InitInv, NextInv, PTL DEF Spec

-----------------------------------------------------------------------------

\* Type correctness: trails never outgrow history_max_entries, snapshots cover
\* tracked fields only.
THEOREM TypeCorrect == Spec => []TypeOK
  <1>1. IInv => TypeOK
    <2> SUFFICES ASSUME IInv PROVE TypeOK
      OBVIOUS
    <2>1. ASSUME NEW i \in Instances
          PROVE  /\ DOMAIN snapshot[i] \subseteq Fields
                 /\ \A k \in 1..Len(history[i]) : history[i][k] \in Entries
      <3>1. snapshot[i] \in Snapshots /\ history[i] \in Seq(Entries)
        BY OneFacts
      <3>2. DOMAIN snapshot[i] \subseteq Fields
        BY <3>1 DEF Snapshots
      <3> QED
        BY <3>1, <3>2, LenProperties
    <2>2. \A k \in 1..Len(trail) : trail[k] \in Entries
      BY LenProperties DEF IInv, Typed
    <2> QED
      BY <2>1, <2>2 DEF IInv, Typed, TypeOK
  <1> QED
    BY Invariance, <1>1, PTL

\* Whatever stale saves overwrite, the newest entry about a column ends with the
\* column's value, unless an instance was read or written in part while stale,
\* carried the entry of a failed save or was re-baselined over an edit.
THEOREM RowAndTrailAgreeTheorem == Spec => []RowAndTrailAgree
  <1>1. IInv => RowAndTrailAgree
    <2> SUFFICES ASSUME IInv, Benign(taint), NEW f \in Fields, NEW k \in Newest(f)
                 PROVE  \E c \in trail[k].changes : c.field = f /\ c.new = row[f]
      BY DEF RowAndTrailAgree, TrailExplains, Benign
    <2>1. Explains(trail, f, row[f])
      BY DEF IInv, Agrees
    <2>2. k \in 1..Len(trail) /\ Says(trail, k, f)
      BY DEF Newest, Mentions, Says
    <2>3. ASSUME NEW j \in 1..Len(trail), Says(trail, j, f) PROVE j <= k
      BY <2>3 DEF Newest, Mentions, Says
    <2> QED
      BY <2>1, <2>2, <2>3 DEF Explains
  <1> QED
    BY Invariance, <1>1, PTL

\* A save by an instance that is up to date and was not re-baselined records, in
\* the entry it appends, exactly what it changes in the row.
THEOREM NoSilentWriteTheorem == Spec => NoSilentWrite
  <1> DEFINE Recording ==
        version' # version /\ version > 0 /\ last' \cap {"stale", "rebased"} = {}
          => LET changed == {f \in Fields : row'[f] # row[f]} IN
             changed # {} => trail'[Len(trail')].changes = {Change(f, row[f], row'[f]) : f \in changed}
  <1>1. ASSUME IInv, NEW i \in Instances, NEW fs, NEW partial, ASaves(i, fs, partial) PROVE Recording
    <2> DEFINE changed == {f \in Fields : row'[f] # row[f]}
    <2> SUFFICES ASSUME version > 0, last' \cap {"stale", "rebased"} = {}, changed # {}
                 PROVE  trail'[Len(trail')].changes = {Change(f, row[f], row'[f]) : f \in changed}
      OBVIOUS
    <2>1. /\ fs \in SUBSET Fields /\ state[i] # "none" /\ version \in Nat
          /\ Adding(i) => version = 0
          /\ trail' = IF WritesTrail(i, fs, partial) THEN NewHistory(i, fs) ELSE trail
      BY <1>1, OneFacts DEF ASaves, Save
    <2>2. ~Adding(i) /\ state[i] = "loaded"
      BY <1>1, <2>1, SaveFacts DEF Adding
    <2>3. base[i] = version /\ "rebased" \notin FlawsOnRead(i)
      BY <1>1, <2>1, SaveFacts
    <2>4. DOMAIN FullSnapshot(i) = Fields /\ \A f \in Fields : FullSnapshot(i)[f] = row[f]
      BY <1>1, <2>1, <2>2, <2>3, FullFacts
    <2>5. \A f \in Fields : row'[f] = IF f \in fs THEN FullValue(i)[f] ELSE row[f]
      BY <1>1, SaveFacts
    <2>6. changed = {g \in DOMAIN FullSnapshot(i) \cap fs : FullSnapshot(i)[g] # FullValue(i)[g]}
      BY <2>1, <2>4, <2>5
    <2>7. Changes(i, fs) = {Change(f, FullSnapshot(i)[f], FullValue(i)[f]) : f \in changed}
      BY <1>1, <2>1, <2>2, <2>6, ChangesFacts
    <2>8. \A f \in changed : FullSnapshot(i)[f] = row[f] /\ FullValue(i)[f] = row'[f]
      BY <2>1, <2>4, <2>5, <2>6
    <2>9. Changes(i, fs) = {Change(f, row[f], row'[f]) : f \in changed}
      <3> HIDE DEF changed
      <3> QED
        BY <2>7, <2>8
    <2>10. Recorded(i, fs) /\ WritesTrail(i, fs, partial)
      <3>1. Changes(i, fs) # {}
        BY <2>9
      <3> QED
        BY <3>1 DEF Recorded, WritesTrail
    <2> QED
      BY <1>1, <2>1, <2>9, <2>10, NewHistoryFacts
  <1>2. IInv /\ [Next]_vars => [Recording]_vars
    <2> SUFFICES ASSUME IInv, [Next]_vars, version' # version PROVE Recording
      BY DEF vars, database
    <2>1. PICK i \in Instances :
            \/ New(i) \/ Load(i) \/ HandBuilt(i) \/ Refresh(i) \/ Drop(i)
            \/ \E f \in Fields : Edit(i, f) \/ RefreshField(i, f)
            \/ Save(i, Fields, FALSE)
            \/ SaveFails(i, Fields)
            \/ \E fs \in SUBSET Fields \ {{}} : Save(i, fs, TRUE) \/ SaveFails(i, fs)
      BY DEF Next, vars, database
    <2>2. Save(i, Fields, FALSE) \/ \E fs \in SUBSET Fields \ {{}} : Save(i, fs, TRUE)
      BY <2>1 DEF New, Load, HandBuilt, Refresh, Drop, Edit, RefreshField, SaveFails, database
    <2>3. \E fs, partial : ASaves(i, fs, partial)
      BY <2>2 DEF ASaves
    <2> HIDE DEF Recording
    <2> QED
      BY <1>1, <2>3
  <1> QED
    BY Invariance, <1>2, PTL DEF Spec, NoSilentWrite
=============================================================================
