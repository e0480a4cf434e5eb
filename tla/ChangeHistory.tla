--------------------------- MODULE ChangeHistory ---------------------------
(***************************************************************************)
(* netix_backend/django/change_history.py, ChangeHistoryModel: a row that  *)
(* carries its own audit trail.  Requests hold their own in-memory copies  *)
(* (instances) of one row, edit them and save them; each save diffs the    *)
(* instance against its snapshot and writes the trail it has in memory.    *)
(*                                                                         *)
(* Auxiliary state, not in the code: version and base tell whether a save  *)
(* overwrites what another instance wrote; flaws, last and taint name what *)
(* was out of the ordinary about an instance, the last save and all saves: *)
(*   "stale"    another instance has saved since this one read the row, or *)
(*              this one, built by hand, never read it;                    *)
(*   "mixed"    a stale instance wrote, or read again, only some columns;  *)
(*   "phantom"  the instance carries the entry of a save that failed;      *)
(*   "rebased"  a snapshot was taken while an edit was pending.            *)
(***************************************************************************)
EXTENDS Naturals, Sequences, FiniteSets

CONSTANTS
    Fields,        \* history_fields
    Values,        \* JSON values of a field; Blank is the empty one
    Blank,
    Instances,     \* in-memory copies of the row
    Cap,           \* history_max_entries
    MaxWrites,     \* bound on successful saves
    MaxFailures,   \* bound on failed saves
    MaxEdits,      \* bound on assignments
    PartialLoads   \* whether rows are loaded with deferred fields or refreshed in part

ASSUME HistoryAssumption ==
    /\ Blank \in Values
    /\ Cap \in Nat \ {0}
    /\ MaxWrites \in Nat /\ MaxFailures \in Nat /\ MaxEdits \in Nat
    /\ PartialLoads \in BOOLEAN

VARIABLES
    row,        \* the tracked columns in the database
    trail,      \* the change_history column in the database
    version,    \* successful saves so far; 0 before the row exists
    state,      \* state[i]: "none", "adding" (_state.adding) or "loaded"
    value,      \* value[i]: the instance's attributes
    loaded,     \* loaded[i]: the fields that are not deferred
    snapshot,   \* snapshot[i]: _change_history_snapshot, a function on some fields
    history,    \* history[i]: the instance's change_history
    base,       \* base[i]: the version the instance last read or wrote, 0 for none
    flaws,      \* flaws[i]: the oddities the instance i carries
    last,       \* those of the last save
    taint,      \* those of all saves
    failures,   \* failed saves so far
    edits       \* assignments so far, the values of a hand-built instance among them

database == <<row, trail, version>>
instance == <<state, value, loaded, snapshot, history, base, flaws>>
ghosts == <<last, taint, failures, edits>>
vars == <<database, instance, ghosts>>

-----------------------------------------------------------------------------

NoSnapshot == [f \in {} |-> Blank]

Init ==
    /\ row = [f \in Fields |-> Blank]
    /\ trail = <<>>
    /\ version = 0
    /\ state = [i \in Instances |-> "none"]
    /\ value = [i \in Instances |-> [f \in Fields |-> Blank]]
    /\ loaded = [i \in Instances |-> Fields]
    /\ snapshot = [i \in Instances |-> NoSnapshot]
    /\ history = [i \in Instances |-> <<>>]
    /\ base = [i \in Instances |-> 0]
    /\ flaws = [i \in Instances |-> {}]
    /\ last = {}
    /\ taint = {}
    /\ failures = 0
    /\ edits = 0

-----------------------------------------------------------------------------
\* Reading.

\* A new, unsaved instance.
New(i) ==
    /\ state[i] = "none"
    /\ version = 0
    /\ \E v \in [Fields -> Values] : value' = [value EXCEPT ![i] = v]
    /\ state' = [state EXCEPT ![i] = "adding"]
    /\ loaded' = [loaded EXCEPT ![i] = Fields]
    /\ snapshot' = [snapshot EXCEPT ![i] = NoSnapshot]
    /\ history' = [history EXCEPT ![i] = <<>>]
    /\ base' = [base EXCEPT ![i] = 0]
    /\ flaws' = [flaws EXCEPT ![i] = {}]
    /\ UNCHANGED <<database, ghosts>>

\* from_db: the snapshot covers what was loaded, a deferred field is left out.
Load(i) ==
    /\ state[i] = "none"
    /\ version > 0
    /\ \E fs \in (IF PartialLoads THEN SUBSET Fields ELSE {Fields}) :
          /\ loaded' = [loaded EXCEPT ![i] = fs]
          /\ snapshot' = [snapshot EXCEPT ![i] = [f \in fs |-> row[f]]]
          /\ value' = [value EXCEPT ![i] = [f \in Fields |-> IF f \in fs THEN row[f] ELSE Blank]]
    /\ state' = [state EXCEPT ![i] = "loaded"]
    /\ history' = [history EXCEPT ![i] = trail]
    /\ base' = [base EXCEPT ![i] = version]
    /\ flaws' = [flaws EXCEPT ![i] = {}]
    /\ UNCHANGED <<database, ghosts>>

\* An instance of the row that was never read: it has the row's key and values of
\* its own, no snapshot to diff against and no history.
HandBuilt(i) ==
    /\ state[i] = "none"
    /\ version > 0
    /\ edits < MaxEdits
    /\ edits' = edits + 1
    /\ \E v \in [Fields -> Values] : value' = [value EXCEPT ![i] = v]
    /\ state' = [state EXCEPT ![i] = "loaded"]
    /\ loaded' = [loaded EXCEPT ![i] = Fields]
    /\ snapshot' = [snapshot EXCEPT ![i] = NoSnapshot]
    /\ history' = [history EXCEPT ![i] = <<>>]
    /\ base' = [base EXCEPT ![i] = 0]
    /\ flaws' = [flaws EXCEPT ![i] = {}]
    /\ UNCHANGED <<database, last, taint, failures>>

\* refresh_from_db() rereads the row and takes a new snapshot ...
Refresh(i) ==
    /\ state[i] = "loaded"
    /\ value' = [value EXCEPT ![i] = row]
    /\ loaded' = [loaded EXCEPT ![i] = Fields]
    /\ snapshot' = [snapshot EXCEPT ![i] = row]
    /\ history' = [history EXCEPT ![i] = trail]
    /\ base' = [base EXCEPT ![i] = version]
    /\ flaws' = [flaws EXCEPT ![i] = {}]
    /\ UNCHANGED <<database, state, ghosts>>

\* _history_values on a partly loaded instance: reading a deferred attribute
\* makes Django call refresh_from_db(fields=[...]), whose override then takes a
\* snapshot of EVERY field as it stands in memory.
FullValue(i) == [f \in Fields |-> IF f \in loaded[i] THEN value[i][f] ELSE row[f]]
FullSnapshot(i) == IF loaded[i] = Fields THEN snapshot[i] ELSE FullValue(i)

\* The edits no save has written yet.
Pending(i) == {f \in DOMAIN snapshot[i] : snapshot[i][f] # value[i][f]}

\* The oddities that reading the columns fs again gives the instance.
ReadAgain(i, fs) == (IF Pending(i) \subseteq fs THEN {} ELSE {"rebased"})
                    \cup (IF base[i] = version THEN {} ELSE {"mixed"})

\* flaws[i] after save() has read the tracked values.
FlawsOnRead(i) ==
    IF loaded[i] = Fields THEN flaws[i]
    ELSE flaws[i] \cup ReadAgain(i, Fields \ loaded[i])

\* ... and so does refresh_from_db(fields=[f]), for the one field and for what
\* it finds deferred.
RefreshField(i, f) ==
    /\ PartialLoads
    /\ state[i] = "loaded"
    /\ value' = [value EXCEPT ![i] = [FullValue(i) EXCEPT ![f] = row[f]]]
    /\ loaded' = [loaded EXCEPT ![i] = Fields]
    /\ snapshot' = [snapshot EXCEPT ![i] = value'[i]]
    /\ flaws' = [flaws EXCEPT ![i] = @ \cup ReadAgain(i, {f} \cup (Fields \ loaded[i]))]
    /\ UNCHANGED <<database, state, history, base, ghosts>>

\* An attribute is assigned.  Assigning one that was deferred is documented to
\* go unrecorded and is left out.
Edit(i, f) ==
    /\ state[i] # "none"
    /\ f \in loaded[i]
    /\ edits < MaxEdits
    /\ edits' = edits + 1
    /\ \E v \in Values \ {value[i][f]} : value' = [value EXCEPT ![i][f] = v]
    /\ UNCHANGED <<database, state, loaded, snapshot, history, base, flaws, last, taint, failures>>

\* The request is over and its instance is gone.
Drop(i) ==
    /\ state[i] # "none"
    /\ state' = [state EXCEPT ![i] = "none"]
    /\ value' = [value EXCEPT ![i] = [f \in Fields |-> Blank]]
    /\ loaded' = [loaded EXCEPT ![i] = Fields]
    /\ snapshot' = [snapshot EXCEPT ![i] = NoSnapshot]
    /\ history' = [history EXCEPT ![i] = <<>>]
    /\ base' = [base EXCEPT ![i] = 0]
    /\ flaws' = [flaws EXCEPT ![i] = {}]
    /\ UNCHANGED <<database, ghosts>>

-----------------------------------------------------------------------------
\* Saving.  fs is update_fields, or Fields for a save without it.

Adding(i) == state[i] = "adding"

Change(f, old, new) == [field |-> f, old |-> old, new |-> new]

\* The non-empty values of a new row; else what differs from the snapshot among
\* the fields this save writes.
Changes(i, fs) ==
    LET now == FullValue(i)
        was == FullSnapshot(i)
    IN  IF Adding(i)
        THEN {Change(f, Blank, now[f]) : f \in {g \in Fields : now[g] # Blank}}
        ELSE {Change(f, was[f], now[f]) : f \in {g \in DOMAIN was \cap fs : was[g] # now[g]}}

\* _action_for; the soft-delete flag names the action.
ActionFor(i, changes) ==
    LET flags == {c \in changes : c.field = "is_deleted"} IN
    IF Adding(i) THEN "created"
    ELSE IF flags = {} THEN "updated"
    ELSE IF \E c \in flags : c.new # Blank THEN "deleted"
    ELSE "restored"

\* _build_history_entry returned an entry: a creation always does.
Recorded(i, fs) == Adding(i) \/ Changes(i, fs) # {}

Capped_KeepsOldest(s) == SubSeq(s, 1, IF Len(s) < Cap THEN Len(s) ELSE Cap)

Capped_OneMore(s) == IF Len(s) <= Cap THEN s ELSE SubSeq(s, Len(s) - Cap, Len(s))

\* history[-cap:]
Capped(s) == IF Len(s) <= Cap THEN s ELSE SubSeq(s, Len(s) - Cap + 1, Len(s))

\* The change_history the instance holds once save() has appended its entry.
NewHistory(i, fs) ==
    IF Recorded(i, fs)
    THEN Capped(Append(history[i], [action |-> ActionFor(i, Changes(i, fs)), changes |-> Changes(i, fs)]))
    ELSE history[i]

\* The trail column is written by a full save, and added to update_fields when
\* there is an entry.
WritesTrail(i, fs, partial) == ~partial \/ Recorded(i, fs)

Resynced_AllFields(i, fs, partial) == FullValue(i)

\* _sync_history_snapshot: a partial save leaves the fields it did not write
\* pending.
Resynced(i, fs, partial) ==
    IF Adding(i) \/ ~partial
    THEN FullValue(i)
    ELSE [f \in DOMAIN FullSnapshot(i) \cup fs |->
            IF f \in fs THEN FullValue(i)[f] ELSE FullSnapshot(i)[f]]

\* Reading the tracked values loads whatever was deferred, saved or not.
Fetch(i) ==
    /\ value' = [value EXCEPT ![i] = FullValue(i)]
    /\ loaded' = [loaded EXCEPT ![i] = Fields]

Save(i, fs, partial) ==
    /\ state[i] # "none"
    /\ Adding(i) => version = 0 /\ ~partial
    /\ version < MaxWrites
    /\ Fetch(i)
    /\ row' = [f \in Fields |-> IF f \in fs THEN FullValue(i)[f] ELSE row[f]]
    /\ trail' = IF WritesTrail(i, fs, partial) THEN NewHistory(i, fs) ELSE trail
    /\ history' = [history EXCEPT ![i] = NewHistory(i, fs)]
    /\ snapshot' = [snapshot EXCEPT ![i] = Resynced(i, fs, partial)]
    /\ state' = [state EXCEPT ![i] = "loaded"]
    /\ version' = version + 1
    /\ base' = [base EXCEPT ![i] = IF partial /\ @ # version THEN @ ELSE version']
    /\ flaws' = [flaws EXCEPT ![i] = IF partial THEN FlawsOnRead(i) ELSE {}]
    /\ last' = FlawsOnRead(i) \cup (IF base[i] = version THEN {}
                                   ELSE IF partial THEN {"stale", "mixed"} ELSE {"stale"})
    /\ taint' = taint \cup last'
    /\ UNCHANGED <<failures, edits>>

\* The database refuses the write: the entry stays on the instance, the snapshot
\* stays as it was.
SaveFails(i, fs) ==
    /\ state[i] # "none"
    /\ failures < MaxFailures
    /\ failures' = failures + 1
    /\ Fetch(i)
    /\ history' = [history EXCEPT ![i] = NewHistory(i, fs)]
    /\ snapshot' = [snapshot EXCEPT ![i] = FullSnapshot(i)]
    /\ flaws' = [flaws EXCEPT ![i] = FlawsOnRead(i) \cup IF Recorded(i, fs) THEN {"phantom"} ELSE {}]
    /\ UNCHANGED <<database, state, base, last, taint, edits>>

-----------------------------------------------------------------------------

Next == \E i \in Instances :
    \/ New(i) \/ Load(i) \/ HandBuilt(i) \/ Refresh(i) \/ Drop(i)
    \/ \E f \in Fields : Edit(i, f) \/ RefreshField(i, f)
    \/ Save(i, Fields, FALSE)
    \/ SaveFails(i, Fields)
    \/ \E fs \in SUBSET Fields \ {{}} : Save(i, fs, TRUE) \/ SaveFails(i, fs)

Spec == Init /\ [][Next]_vars

-----------------------------------------------------------------------------

Entries == [action : {"created", "updated", "deleted", "restored"},
            changes : SUBSET [field : Fields, old : Values, new : Values]]

TypeOK ==
    /\ row \in [Fields -> Values]
    /\ Len(trail) <= Cap /\ \A k \in 1..Len(trail) : trail[k] \in Entries
    /\ version \in 0..MaxWrites
    /\ state \in [Instances -> {"none", "adding", "loaded"}]
    /\ value \in [Instances -> [Fields -> Values]]
    /\ loaded \in [Instances -> SUBSET Fields]
    /\ \A i \in Instances : /\ DOMAIN snapshot[i] \subseteq Fields
                            /\ Len(history[i]) <= Cap
                            /\ \A k \in 1..Len(history[i]) : history[i][k] \in Entries
    /\ base \in [Instances -> 0..MaxWrites]
    /\ flaws \in [Instances -> SUBSET {"mixed", "phantom", "rebased"}]
    /\ last \subseteq {"stale", "mixed", "phantom", "rebased"} /\ last \subseteq taint
    /\ failures \in 0..MaxFailures /\ edits \in 0..MaxEdits

\* A save by an instance that is up to date and was not re-baselined records, in
\* the entry it appends, exactly what it changes in the database: each tracked
\* column with the value before and the value after, edits that earlier partial
\* saves left pending included, and after any number of failed saves.
NoSilentWrite ==
    [][version' # version /\ version > 0 /\ last' \cap {"stale", "rebased"} = {}
         => LET changed == {f \in Fields : row'[f] # row[f]} IN
            changed # {} => trail'[Len(trail')].changes = {Change(f, row[f], row'[f]) : f \in changed}]_vars

Mentions(f) == {k \in 1..Len(trail) : \E c \in trail[k].changes : c.field = f}
Newest(f) == {k \in Mentions(f) : \A j \in Mentions(f) : j <= k}

\* The newest entry that mentions a column ends with the column's value.
TrailExplains(f) == \A k \in Newest(f) : \E c \in trail[k].changes : c.field = f /\ c.new = row[f]

\* Racing requests may overwrite each other, but as long as stale instances are
\* read and saved whole, no entry of a failed save is carried along and nothing was
\* re-baselined, the row never shows values that its trail contradicts: a stale
\* save puts back its own trail together with its own values, and that of an
\* instance built by hand an empty one.
RowAndTrailAgree == taint \subseteq {"stale"} => \A f \in Fields : TrailExplains(f)

\* An edit that is still unsaved "must stay pending in the snapshot and be
\* recorded by the save that does write it".
EditsAreRecorded == taint \subseteq {"rebased"} => \A f \in Fields : TrailExplains(f)
=============================================================================
