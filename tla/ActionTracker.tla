---- MODULE ActionTracker ----
(***************************************************************************)
(* The action tracker of the converged soak (class ActionTracker of        *)
(* scripts/converged-soak-live.py on top of detect_actions and             *)
(* correlate_actions of emule_test_harness/soak_action_diff.py).           *)
(*                                                                         *)
(* Two live clients expose their searches and downloads over REST.  Once   *)
(* per loop iteration the tracker is fed the four lists, turns rows it has *)
(* never seen into actions, pairs the same (kind, key) across the clients, *)
(* and reports each pair whose capture window has closed and each action   *)
(* that waited in vain for its counterpart.  Operators (or the clients     *)
(* themselves) add and remove rows at any moment; a poll that fails reads  *)
(* as an empty list.                                                       *)
(***************************************************************************)
EXTENDS Integers, FiniteSets

CONSTANTS
  Rows,             \* REST rows that may exist: [client, kind, id, key]
  Window,           \* window_seconds of the tracker
  Settle,           \* settle_seconds (searches)
  DownloadSettle,   \* download_settle_seconds (downloads)
  Preexisting,      \* bound: the rows that may be listed before the soak
  Removable,        \* bound: the rows that may leave a list again
  Flaky,            \* bound: the surfaces whose poll may fail
  MaxCycle,         \* bound: auto-drive cycles that may issue a synchronized action
  MaxGap,           \* bound: the longest time between two iterations
  MaxTime           \* bound: the last iteration's time

Client == {"rust", "mfc"}
Kind == {"search", "download"}
Surface == Client \X Kind
Keys == {row.key : row \in Rows}
RowIds == {<<"row", row.id>> : row \in Rows}
SyncIds == {<<c, n>> : c \in Client, n \in 1..MaxCycle}
Ids == RowIds \cup SyncIds

ASSUME RowsAssumption ==
  /\ IsFiniteSet(Rows)
  /\ \A row \in Rows : /\ row.client \in Client /\ row.kind \in Kind
                       /\ row = [client |-> row.client, kind |-> row.kind,
                                 id |-> row.id, key |-> row.key]
ASSUME BoundsAssumption ==
  Preexisting \subseteq Rows /\ Removable \subseteq Rows /\ Flaky \subseteq Surface
ASSUME TimesAssumption ==
  /\ Window \in Nat /\ Settle \in Nat /\ DownloadSettle \in Nat
  /\ MaxCycle \in Nat /\ MaxGap \in Nat /\ MaxTime \in Nat

VARIABLES
  listed,            \* the rows the two clients list now
  phase,             \* "startup" before prime(), then "loop"
  now,               \* datetime.now of the current iteration
  lastTick,          \* the last iteration whose tick ran, -1 before
  seen,              \* self.seen: surface -> ids
  baselineKeys,      \* self.baseline_keys: surface -> keys
  synchronizedKeys,  \* self.synchronized_keys
  observed,          \* self.rust and self.mfc, as one set of actions
  processed,         \* self.processed: action ids
  reports,           \* history: what the ticks returned
  baseline           \* history: the rows listed when prime() ran, and
                     \* the surfaces whose poll succeeded then

tracker == <<seen, baselineKeys, synchronizedKeys, observed, processed, reports>>
vars == <<listed, phase, now, lastTick, tracker, baseline>>

SurfaceOf(row) == <<row.client, row.kind>>
ListedOn(s) == {row \in listed : SurfaceOf(row) = s}

(* On one list an id names one row; lists of other clients or kinds may use  *)
(* the same id, as the two halves of a download do, both listed under their  *)
(* hash.                                                                    *)
IdsNameRows(rows) ==
  \A r1, r2 \in rows : SurfaceOf(r1) = SurfaceOf(r2) /\ r1.id = r2.id => r1 = r2

(* An observed action.  "pos" orders the actions of one iteration as their  *)
(* list does: synchronized ones are appended before that iteration's rows.  *)
Action == [client : Client, kind : Kind, id : Ids, key : Keys, at : Nat, pos : Nat]

Init ==
  /\ listed \in SUBSET Preexisting /\ IdsNameRows(listed)
  /\ phase = "startup"
  /\ now = 0
  /\ lastTick = -1
  /\ seen = [s \in Surface |-> {}]
  /\ baselineKeys = [s \in Surface |-> {}]
  /\ synchronizedKeys = {}
  /\ observed = {}
  /\ processed = {}
  /\ reports = {}
  /\ baseline = [rows |-> {}, polled |-> {}]

(* The rows a poll returns: _get_list gives [] for a request that fails.    *)
Polled(ok) == {row \in listed : SurfaceOf(row) \in ok}

(* prime(): seeds the seen ids and the baseline keys of the four surfaces   *)
(* from one poll of each.                                                   *)
Prime(ok) ==
  /\ phase = "startup"
  /\ phase' = "loop"
  /\ seen' = [s \in Surface |->
       {<<"row", row.id>> : row \in Polled(ok) \cap ListedOn(s)}]
  /\ baselineKeys' = [s \in Surface |-> {row.key : row \in Polled(ok) \cap ListedOn(s)}]
  /\ baseline' = [rows |-> listed, polled |-> ok]
  /\ UNCHANGED <<listed, now, lastTick, synchronizedKeys, observed, processed, reports>>

(* The clients' side: a search or a download appears in a list, under an id   *)
(* that no other row of it bears, or leaves it.                             *)
Appear(row) ==
  /\ row \notin listed
  /\ \A other \in ListedOn(SurfaceOf(row)) : other.id # row.id
  /\ listed' = listed \cup {row}
  /\ UNCHANGED <<phase, now, lastTick, tracker, baseline>>

Vanish(row) ==
  /\ row \in listed
  /\ listed' = listed \ {row}
  /\ UNCHANGED <<phase, now, lastTick, tracker, baseline>>

(* The loop starts a new iteration: it may have been asleep for the poll    *)
(* interval, or for as long as an automatic cycle took.                     *)
Iterate(t) ==
  /\ phase = "loop"
  /\ now < t /\ t <= now + MaxGap /\ t <= MaxTime
  /\ now' = t
  /\ UNCHANGED <<listed, phase, lastTick, tracker, baseline>>

(* record_synchronized_action(): the driver has started the same download   *)
(* on both clients in this iteration, before its tick.                      *)
SyncAction(client, kind, key, cycle) ==
  [client |-> client, kind |-> kind, id |-> <<client, cycle>>, key |-> key,
   at |-> now, pos |-> cycle]

Records(kind, key, cycle) ==
  /\ synchronizedKeys' = synchronizedKeys \cup {<<kind, key>>}
  /\ observed' = observed \cup {SyncAction(c, kind, key, cycle) : c \in Client}
  /\ UNCHANGED <<seen, baselineKeys, processed, reports>>

RecordSynchronized(kind, key, cycle) ==
  /\ phase = "loop"
  /\ lastTick < now
  /\ \A a \in observed, c \in Client : a.id # <<c, cycle>>
  /\ Records(kind, key, cycle)
  /\ UNCHANGED <<listed, phase, now, lastTick, baseline>>

----------------------------------------------------------------------------
(* _ingest() and detect_actions(): the rows of this poll that become actions *)
(* (Fresh is what detect_actions returns, NewRows what the filter keeps).   *)
Fresh(ok) == {row \in Polled(ok) : <<"row", row.id>> \notin seen[SurfaceOf(row)]}

NewRowsUnfiltered(ok) == {row \in Fresh(ok) : row.key \notin baselineKeys[SurfaceOf(row)]}
NewRowsNoBaseline(ok) == {row \in Fresh(ok) : <<row.kind, row.key>> \notin synchronizedKeys}

NewRows(ok) ==
  {row \in Fresh(ok) : /\ <<row.kind, row.key>> \notin synchronizedKeys
                       /\ row.key \notin baselineKeys[SurfaceOf(row)]}

(* Rows of one list that share a key keep the list's order, which is the     *)
(* client's business: any numbering of them that has no tie.                *)
Twins(r1, r2) == SurfaceOf(r1) = SurfaceOf(r2) /\ r1.key = r2.key

Placings(rows) ==
  {place \in [rows -> 0..Cardinality(rows)] :
     \A r1 \in rows :
       /\ place[r1] < Cardinality({r2 \in rows : Twins(r1, r2)})
       /\ \A r2 \in rows \ {r1} : Twins(r1, r2) => place[r1] # place[r2]}

RowActionByKey(row, place) ==
  [client |-> row.client, kind |-> row.kind, id |-> <<"row", row.key>>,
   key |-> row.key, at |-> now, pos |-> MaxCycle + 1 + place]

RowAction(row, place) ==
  [client |-> row.client, kind |-> row.kind, id |-> <<"row", row.id>>,
   key |-> row.key, at |-> now, pos |-> MaxCycle + 1 + place]

(* correlate_actions(): rust actions in time order, each taking the nearest  *)
(* mfc action of its kind and key inside the window that is still free.     *)
Distance(a, b) == IF a.at < b.at THEN b.at - a.at ELSE a.at - b.at
Before(a, b) == a.at < b.at \/ (a.at = b.at /\ a.pos < b.pos)
Compatible(a, b) ==
  a.kind = b.kind /\ a.key = b.key /\ Distance(a, b) <= Window
Nearer(r, m, other) ==
  \/ Distance(r, m) < Distance(r, other)
  \/ Distance(r, m) = Distance(r, other) /\ Before(m, other)

Candidates(rusts, mfcs) ==
  {p \in rusts \X mfcs : Compatible(p[1], p[2])}

(* The mfc actions no earlier rust action took: whoever has one is r itself  *)
(* or comes after r.                                                        *)
FreeFor(r, mfcs, pairs) ==
  {m \in mfcs : /\ Compatible(r, m)
                /\ \A p \in pairs : p[2] = m => p[1] = r \/ Before(r, p[1])}

Correlation(rusts, mfcs, pairs) ==
  /\ pairs \subseteq Candidates(rusts, mfcs)
  /\ \A r \in rusts :
       LET free == FreeFor(r, mfcs, pairs)
       IN  IF free = {} THEN \A p \in pairs : p[1] # r
           ELSE \E m \in free :
                  /\ \A p \in pairs : p[1] = r <=> p = <<r, m>>
                  /\ <<r, m>> \in pairs
                  /\ \A other \in free \ {m} : Nearer(r, m, other)

----------------------------------------------------------------------------
SettleFor(kind) == IF kind = "download" THEN DownloadSettle ELSE Settle
LaterAt(p) == IF p[1].at < p[2].at THEN p[2].at ELSE p[1].at

(* A pair is ready once its capture window has closed.                      *)
Ready(p) == now >= LaterAt(p) + SettleFor(p[1].kind)

AgedWithoutWindow(a) == now - a.at >= SettleFor(a.kind)
AgedTwiceWindow(a) == now - a.at > 2 * Window + SettleFor(a.kind)

(* An unpaired action has aged out: no counterpart can still arrive in time. *)
Aged(a) == now - a.at > Window + SettleFor(a.kind)

ActiveOfAll(client, actions) == {a \in actions : a.client = client}

ActiveOf(client, actions) ==
  {a \in actions : a.client = client /\ a.id \notin processed}

(* What a tick hands out: the members of each ready pair, and each aged      *)
(* action that no pair contains.                                            *)
Paired(pairs) == {p[1] : p \in pairs} \cup {p[2] : p \in pairs}
Outcome(active, pairs) ==
  {{p[1], p[2]} : p \in {q \in pairs : Ready(q)}}
    \cup {{a} : a \in {b \in active \ Paired(pairs) : Aged(b)}}

(* tick(): ingest the four lists, correlate what is still active, hand out   *)
(* the ready pairs and the aged unpaired actions and mark them processed.   *)
Ingested(ok, place) ==
  observed \cup {RowAction(row, place[row]) : row \in NewRows(ok)}

Ticks(ok) ==
  /\ seen' = [s \in Surface |->
       seen[s] \cup {<<"row", row.id>> : row \in Polled(ok) \cap ListedOn(s)}]
  /\ \E place \in Placings(NewRows(ok)) :
       LET actions == Ingested(ok, place)
           rusts == ActiveOf("rust", actions)
           mfcs == ActiveOf("mfc", actions)
       IN  \E pairs \in SUBSET Candidates(rusts, mfcs) :
             /\ Correlation(rusts, mfcs, pairs)
             /\ observed' = actions
             /\ processed' = processed
                  \cup {a.id : a \in UNION Outcome(rusts \cup mfcs, pairs)}
             /\ reports' = reports
                  \cup {[members |-> m, at |-> now] : m \in Outcome(rusts \cup mfcs, pairs)}
  /\ lastTick' = now
  /\ UNCHANGED <<baselineKeys, synchronizedKeys>>

Tick(ok) ==
  /\ phase = "loop"
  /\ lastTick < now
  /\ Ticks(ok)
  /\ UNCHANGED <<listed, phase, now, baseline>>

Next ==
  \/ \E down \in SUBSET Flaky : Prime(Surface \ down)
  \/ \E row \in Rows : Appear(row)
  \/ \E row \in Removable : Vanish(row)
  \/ \E t \in 1..MaxTime : Iterate(t)
  \/ \E key \in Keys, cycle \in 1..MaxCycle : RecordSynchronized("download", key, cycle)
  \/ \E down \in SUBSET Flaky : Tick(Surface \ down)

Spec == Init /\ [][Next]_vars

----------------------------------------------------------------------------
TypeOK ==
  /\ listed \subseteq Rows
  /\ phase \in {"startup", "loop"}
  /\ now \in Nat
  /\ lastTick \in Nat \cup {-1}
  /\ seen \in [Surface -> SUBSET RowIds]
  /\ baselineKeys \in [Surface -> SUBSET Keys]
  /\ synchronizedKeys \subseteq Kind \X Keys
  /\ observed \subseteq Action
  /\ processed \subseteq Ids
  /\ reports \subseteq [members : SUBSET Action, at : Nat]
  /\ baseline \in [rows : SUBSET Rows, polled : SUBSET Surface]

(* Each action is handed out at most once, in one pair or alone ("each at   *)
(* most once", docstring of ActionTracker), although every tick correlates  *)
(* the active actions afresh and may pair them differently than before.     *)
ReportedAtMostOnce ==
  \A r1, r2 \in reports : r1 # r2 => r1.members \cap r2.members = {}

(* What a report has named, and what is marked processed without one: every  *)
(* client and kind shares the set of bare ids that says an action is done.   *)
Reported(a) == \E r \in reports : a \in r.members
Hidden(a) == a.id \in processed /\ ~Reported(a)
SameDeed(a, b) == a.kind = b.kind /\ a.key = b.key

(* Two actions that belong together (same kind and key, seen within the     *)
(* window) are never both surfaced as unpaired, unless an action of that     *)
(* kind and key has been hidden by a namesake: one ages out only when its    *)
(* counterpart is, or stays, taken by another one.                           *)
NoMissedPair ==
  \A r1, r2 \in reports : \A a \in r1.members, b \in r2.members :
    (r1.members = {a} /\ r2.members = {b} /\ a.client # b.client /\ Compatible(a, b))
      => \E c \in observed : SameDeed(a, c) /\ Hidden(c)

(* Neither of two actions that belong together is surfaced as unpaired when  *)
(* they are the only ones of their kind and key and nobody else bears an id   *)
(* of theirs, although the first of them has waited when the second comes:   *)
(* the halves of a download, which bear one id, meet or are both too late.   *)
HalvesMeet ==
  \A a, b \in observed :
    /\ a.client # b.client /\ Compatible(a, b)
    /\ \A c \in observed : SameDeed(a, c) \/ c.id \in {a.id, b.id} => c \in {a, b}
    => \A r \in reports : r.members # {a} /\ r.members # {b}

(* After a tick no action is left pending for longer than the correlation   *)
(* window plus its settle time: pairs that wait for their window to close    *)
(* and actions that wait for a counterpart are both bounded.                *)
PendingIsBounded ==
  \A a \in observed : a.id \notin processed =>
    lastTick - a.at <= Window + SettleFor(a.kind)

(* "Actions with no counterpart in time are returned as ``unpaired`` so the  *)
(* operator can bracket them" (correlate_actions): no observed action drops   *)
(* out of the campaign without a verdict or an unpaired record.             *)
NothingSuppressed == \A a \in observed : ~Hidden(a)

(* An action that does drop out bears the id of a reported action of another  *)
(* client or kind: on its own list no action hides another.                  *)
HiddenByNamesake ==
  \A a \in observed : Hidden(a) =>
    \E b \in observed : Reported(b) /\ b.id = a.id /\ SurfaceOf(b) # SurfaceOf(a)

(* Rows that the driver's own synchronized download produces are never        *)
(* observed as further actions, however late the clients list them.         *)
EchoSuppressed ==
  \A a, b \in observed :
    (a.id \in SyncIds /\ b.id \in RowIds /\ a.kind = b.kind /\ a.key = b.key)
      => b.at < a.at

FromBaseline(a, row) ==
  a.id \in RowIds /\ SurfaceOf(a) = SurfaceOf(row) /\ a.key = row.key

(* What existed before the soak never becomes an action, not even when it    *)
(* comes back under another id, as far as prime() could read its list (it     *)
(* "seeds the seen-id sets from existing REST rows without recording          *)
(* actions").                                                               *)
PolledBaselineSilent ==
  \A a \in observed, row \in baseline.rows :
    SurfaceOf(row) \in baseline.polled => ~FromBaseline(a, row)
====
