---- MODULE ActionTrackerProofs ----
(***************************************************************************)
(* Proofs about ActionTracker, for every set of rows, window and bound.    *)
(***************************************************************************)
EXTENDS ActionTracker, FiniteSetTheorems, WellFoundedInduction, TLAPS

(* Every numbering of a poll's rows gives natural numbers.                  *)
LEMMA PlacingsType ==
  ASSUME NEW rows \in SUBSET Rows, NEW place \in Placings(rows), NEW row \in rows
  PROVE  place[row] \in Nat
<1>1. IsFiniteSet(rows)
  BY RowsAssumption, FS_Subset
<1>2. Cardinality(rows) \in Nat
  BY <1>1, FS_CardinalityType
<1>3. place \in [rows -> 0..Cardinality(rows)]
  BY DEF Placings
<1> QED
  BY <1>2, <1>3

(* The action made of a row is well typed.                                  *)
LEMMA RowActionType ==
  ASSUME TypeOK, NEW row \in Rows, NEW place \in Nat
  PROVE  RowAction(row, place) \in Action
<1>1. /\ row.client \in Client /\ row.kind \in Kind
      /\ row.key \in Keys /\ <<"row", row.id>> \in Ids
  BY RowsAssumption DEF Keys, Ids, RowIds
<1>2. MaxCycle + 1 + place \in Nat
  BY TimesAssumption
<1> QED
  BY <1>1, <1>2 DEF RowAction, Action, TypeOK

(* What _ingest turns into actions is listed by a client.                   *)
LEMMA NewRowsAreListed ==
  ASSUME TypeOK, NEW ok
  PROVE  NewRows(ok) \subseteq listed /\ listed \subseteq Rows
BY DEF TypeOK, NewRows, Fresh, Polled

(* What _ingest appends to the observed actions are actions.                *)
LEMMA IngestedType ==
  ASSUME TypeOK, NEW ok, NEW place \in Placings(NewRows(ok))
  PROVE  Ingested(ok, place) \subseteq Action
<1>1. NewRows(ok) \subseteq Rows
  BY NewRowsAreListed
<1>2. \A row \in NewRows(ok) : place[row] \in Nat
  BY <1>1, PlacingsType
<1>3. \A row \in NewRows(ok) : RowAction(row, place[row]) \in Action
  BY <1>1, <1>2, RowActionType
<1> QED
  BY <1>3 DEF Ingested, TypeOK

----------------------------------------------------------------------------
(* The inductive invariant.  A report only names actions that are observed    *)
(* and processed; an action made of a row is in the seen set of its surface,  *)
(* so no later poll can make it again; a synchronized action left its key     *)
(* behind; the baseline keys hold what prime() could read.                   *)
ReportsAreProcessed ==
  \A r \in reports : \A a \in r.members : a \in observed /\ a.id \in processed

ProcessedAreObserved == \A id \in processed : \E a \in observed : a.id = id

RowActionsAreSeen ==
  \A a \in observed : a.id \in RowIds =>
    /\ a.at <= lastTick
    /\ a.id \in seen[SurfaceOf(a)]
    /\ a.key \notin baselineKeys[SurfaceOf(a)]

SyncActionsAreRecorded ==
  \A a \in observed : a.id \in SyncIds => <<a.kind, a.key>> \in synchronizedKeys

BaselineIsKept ==
  \A row \in baseline.rows : SurfaceOf(row) \in baseline.polled =>
    row.key \in baselineKeys[SurfaceOf(row)]

Startup == phase = "startup" => observed = {}

IInv ==
  /\ TypeOK
  /\ lastTick <= now
  /\ Startup
  /\ ReportsAreProcessed
  /\ ProcessedAreObserved
  /\ RowActionsAreSeen
  /\ SyncActionsAreRecorded
  /\ BaselineIsKept

----------------------------------------------------------------------------
(* A step of tick() with its choices named.                                 *)
TickStep(ok, place, pairs) ==
  LET actions == Ingested(ok, place)
      rusts == ActiveOf("rust", actions)
      mfcs == ActiveOf("mfc", actions)
  IN  /\ place \in Placings(NewRows(ok))
      /\ pairs \subseteq Candidates(rusts, mfcs)
      /\ Correlation(rusts, mfcs, pairs)
      /\ observed' = actions
      /\ processed' = processed
           \cup {a.id : a \in UNION Outcome(rusts \cup mfcs, pairs)}
      /\ reports' = reports
           \cup {[members |-> m, at |-> now] : m \in Outcome(rusts \cup mfcs, pairs)}

(* A tick is a TickStep for some order of the rows and some correlation.    *)
LEMMA TickHasStep ==
  ASSUME NEW ok, Tick(ok)
  PROVE  \E place, pairs : TickStep(ok, place, pairs)
BY DEF Tick, Ticks, TickStep

(* Whatever a tick hands out is an active action.                           *)
LEMMA OutcomeIsActive ==
  ASSUME NEW rusts, NEW mfcs, NEW pairs \in SUBSET Candidates(rusts, mfcs)
  PROVE  UNION Outcome(rusts \cup mfcs, pairs) \subseteq rusts \cup mfcs
BY DEF Outcome, Candidates

(* What a tick hands out is observed, was not processed before and is now.  *)
LEMMA HandedOut ==
  ASSUME NEW ok, NEW place, NEW pairs, TickStep(ok, place, pairs)
  PROVE  LET actions == Ingested(ok, place)
             out == Outcome(ActiveOf("rust", actions) \cup ActiveOf("mfc", actions), pairs)
         IN  /\ \A m \in out : m \subseteq observed'
             /\ \A m \in out : \A a \in m : a.id \notin processed /\ a.id \in processed'
             /\ processed' = processed \cup {a.id : a \in UNION out}
             /\ reports' = reports \cup {[members |-> m, at |-> now] : m \in out}
<1> DEFINE actions == Ingested(ok, place)
           rusts == ActiveOf("rust", actions)
           mfcs == ActiveOf("mfc", actions)
           out == Outcome(rusts \cup mfcs, pairs)
<1>1. /\ pairs \in SUBSET Candidates(rusts, mfcs)
      /\ observed' = actions
      /\ processed' = processed \cup {a.id : a \in UNION out}
      /\ reports' = reports \cup {[members |-> m, at |-> now] : m \in out}
  BY DEF TickStep
<1>2. rusts \cup mfcs \subseteq actions /\ \A a \in rusts \cup mfcs : a.id \notin processed
  BY DEF ActiveOf
<1> HIDE DEF rusts, mfcs, actions
<1>3. UNION out \subseteq rusts \cup mfcs
  BY <1>1, OutcomeIsActive
<1> HIDE DEF out
<1>4. \A m \in out : \A a \in m : a \in actions /\ a.id \notin processed
  BY <1>2, <1>3
<1>5. \A m \in out : \A a \in m : a.id \in processed'
  BY <1>1
<1> QED
  BY <1>1, <1>4, <1>5 DEF out, rusts, mfcs, actions

(* The tracker's sets keep their types through prime(), every tick and every*)
(* synchronized action.                                                     *)
THEOREM TypeCorrect == Spec => []TypeOK
<1>1. Init => TypeOK
  BY BoundsAssumption DEF Init, TypeOK, Surface
<1>2. TypeOK /\ [Next]_vars => TypeOK'
  <2> SUFFICES ASSUME TypeOK, [Next]_vars PROVE TypeOK'
    OBVIOUS
  <2>1. ASSUME NEW down \in SUBSET Flaky, Prime(Surface \ down) PROVE TypeOK'
    <3>1. Polled(Surface \ down) \subseteq Rows
      BY DEF TypeOK, Polled
    <3>2. \A row \in Polled(Surface \ down) : <<"row", row.id>> \in RowIds /\ row.key \in Keys
      BY <3>1 DEF RowIds, Keys
    <3>3. seen' \in [Surface -> SUBSET RowIds] /\ baselineKeys' \in [Surface -> SUBSET Keys]
      BY <2>1, <3>2 DEF Prime
    <3> QED
      BY <2>1, <3>3 DEF TypeOK, Prime
  <2>2. ASSUME NEW row \in Rows, Appear(row) PROVE TypeOK'
    BY <2>2 DEF TypeOK, Appear, tracker
  <2>3. ASSUME NEW row \in Removable, Vanish(row) PROVE TypeOK'
    BY <2>3 DEF TypeOK, Vanish, tracker
  <2>4. ASSUME NEW t \in 1..MaxTime, Iterate(t) PROVE TypeOK'
    BY <2>4, TimesAssumption DEF TypeOK, Iterate, tracker
  <2>5. ASSUME NEW key \in Keys, NEW cycle \in 1..MaxCycle,
               RecordSynchronized("download", key, cycle)
        PROVE  TypeOK'
    <3>1. \A c \in Client : SyncAction(c, "download", key, cycle) \in Action
      BY TimesAssumption DEF SyncAction, Action, TypeOK, Kind, Ids, SyncIds
    <3>2. observed' \subseteq Action
      BY <2>5, <3>1 DEF RecordSynchronized, Records, TypeOK
    <3>3. synchronizedKeys' \subseteq Kind \X Keys
      BY <2>5 DEF RecordSynchronized, Records, TypeOK, Kind
    <3> QED
      BY <2>5, <3>2, <3>3 DEF RecordSynchronized, Records, TypeOK
  <2>6. ASSUME NEW down \in SUBSET Flaky, Tick(Surface \ down) PROVE TypeOK'
    <3> DEFINE ok == Surface \ down
    <3>1. PICK place, pairs : TickStep(ok, place, pairs)
      BY <2>6, TickHasStep
    <3> DEFINE actions == Ingested(ok, place)
               out == Outcome(ActiveOf("rust", actions) \cup ActiveOf("mfc", actions), pairs)
    <3>2. observed' \subseteq Action
      BY <3>1, IngestedType DEF TickStep
    <3>3. /\ \A m \in out : m \subseteq observed'
          /\ processed' = processed \cup {a.id : a \in UNION out}
          /\ reports' = reports \cup {[members |-> m, at |-> now] : m \in out}
      BY <3>1, HandedOut
    <3> HIDE DEF out
    <3>4. processed' \subseteq Ids
      BY <3>2, <3>3 DEF TypeOK, Action
    <3>5. reports' \subseteq [members : SUBSET Action, at : Nat]
      BY <3>2, <3>3 DEF TypeOK
    <3>6. seen' \in [Surface -> SUBSET RowIds]
      <4>1. Polled(ok) \subseteq Rows
        BY DEF TypeOK, Polled
      <4>2. \A row \in Polled(ok) : <<"row", row.id>> \in RowIds
        BY <4>1 DEF RowIds
      <4>3. seen' = [s \in Surface |->
              seen[s] \cup {<<"row", row.id>> : row \in Polled(ok) \cap ListedOn(s)}]
        BY <2>6 DEF Tick, Ticks
      <4>4. \A s \in Surface : {<<"row", row.id>> : row \in Polled(ok) \cap ListedOn(s)}
                               \subseteq RowIds
        BY <4>2
      <4> QED
        BY <4>3, <4>4 DEF TypeOK
    <3> QED
      <4>1. /\ lastTick' = now /\ UNCHANGED <<listed, phase, now, baselineKeys, synchronizedKeys, baseline>>
        BY <2>6 DEF Tick, Ticks
      <4> QED
        BY <3>2, <3>4, <3>5, <3>6, <4>1 DEF TypeOK
  <2>7. CASE UNCHANGED vars
    BY <2>7 DEF TypeOK, vars, tracker
  <2> QED
    BY <2>1, <2>2, <2>3, <2>4, <2>5, <2>6, <2>7 DEF Next
<1> QED
  BY <1>1, <1>2, PTL DEF Spec

----------------------------------------------------------------------------
(* Ids of rows and of synchronized actions (prefixed with the client) differ.*)
LEMMA IdKinds ==
  /\ RowIds \cap SyncIds = {}
  /\ \A row \in Rows : <<"row", row.id>> \in RowIds
  /\ \A c \in Client, n \in 1..MaxCycle : <<c, n>> \in SyncIds
BY DEF RowIds, SyncIds, Client

(* An action a tick adds comes from a row it polled, and carries its data.   *)
LEMMA NewActions ==
  ASSUME TypeOK, NEW ok, NEW place, NEW a \in Ingested(ok, place) \ observed
  PROVE  \E row \in NewRows(ok) :
           /\ row \in Rows
           /\ a.id = <<"row", row.id>> /\ a.at = now
           /\ SurfaceOf(a) = SurfaceOf(row) /\ a.kind = row.kind /\ a.key = row.key
           /\ SurfaceOf(row) \in Surface
<1>1. PICK row \in NewRows(ok) : a = RowAction(row, place[row])
  BY DEF Ingested
<1>2. row \in Rows
  BY NewRowsAreListed
<1> QED
  BY <1>1, <1>2, RowsAssumption DEF RowAction, SurfaceOf, Surface

(* tick() preserves the inductive invariant.                                *)
LEMMA TickPreserves ==
  ASSUME IInv, TypeOK', NEW ok, Tick(ok)
  PROVE  IInv'
<1>1. PICK place, pairs : TickStep(ok, place, pairs)
  BY TickHasStep
<1> DEFINE actions == Ingested(ok, place)
           out == Outcome(ActiveOf("rust", actions) \cup ActiveOf("mfc", actions), pairs)
<1>2. /\ \A m \in out : m \subseteq observed'
      /\ \A m \in out : \A a \in m : a.id \notin processed /\ a.id \in processed'
      /\ processed' = processed \cup {a.id : a \in UNION out}
      /\ reports' = reports \cup {[members |-> m, at |-> now] : m \in out}
  BY <1>1, HandedOut
<1>3. observed' = actions /\ observed \subseteq actions
  BY <1>1 DEF TickStep, Ingested
<1>4. /\ phase = "loop" /\ lastTick < now /\ lastTick' = now
      /\ seen' = [s \in Surface |->
           seen[s] \cup {<<"row", row.id>> : row \in Polled(ok) \cap ListedOn(s)}]
      /\ UNCHANGED <<listed, phase, now, baselineKeys, synchronizedKeys, baseline>>
  BY DEF Tick, Ticks
<1> HIDE DEF out
<1>5. ReportsAreProcessed'
  BY <1>2, <1>3 DEF IInv, ReportsAreProcessed
<1>6. ProcessedAreObserved'
  BY <1>2, <1>3 DEF IInv, ProcessedAreObserved
<1>7. RowActionsAreSeen'
  <2> SUFFICES ASSUME NEW a \in observed', a.id \in RowIds
               PROVE  /\ a.at <= lastTick'
                      /\ a.id \in seen'[SurfaceOf(a)]
                      /\ a.key \notin baselineKeys'[SurfaceOf(a)]
    BY DEF RowActionsAreSeen
  <2>1. CASE a \in observed
    <3>1. SurfaceOf(a) \in Surface /\ a.at \in Nat
      BY <2>1 DEF IInv, TypeOK, Action, SurfaceOf, Surface
    <3>2. /\ a.at <= lastTick /\ a.id \in seen[SurfaceOf(a)]
          /\ a.key \notin baselineKeys[SurfaceOf(a)]
      BY <2>1 DEF IInv, RowActionsAreSeen
    <3> QED
      BY <1>4, <3>1, <3>2 DEF IInv, TypeOK
  <2>2. CASE a \notin observed
    <3>1. PICK row \in NewRows(ok) :
            /\ row \in Rows /\ a.id = <<"row", row.id>> /\ a.at = now
            /\ SurfaceOf(a) = SurfaceOf(row) /\ a.key = row.key
            /\ SurfaceOf(row) \in Surface
      BY <1>3, <2>2, NewActions DEF IInv
    <3>2. /\ row \in Polled(ok) \cap ListedOn(SurfaceOf(row))
          /\ row.key \notin baselineKeys[SurfaceOf(row)]
      BY DEF NewRows, Fresh, Polled, ListedOn
    <3>3. a.id \in seen'[SurfaceOf(a)]
      BY <1>4, <3>1, <3>2
    <3> QED
      BY <1>4, <3>1, <3>2, <3>3 DEF IInv, TypeOK
  <2> QED
    BY <2>1, <2>2
<1>8. SyncActionsAreRecorded'
  <2>1. ASSUME NEW a \in observed', a \notin observed PROVE a.id \notin SyncIds
    <3>1. PICK row \in NewRows(ok) : row \in Rows /\ a.id = <<"row", row.id>>
      BY <1>3, <2>1, NewActions DEF IInv
    <3> QED
      BY <3>1, IdKinds
  <2>2. synchronizedKeys' = synchronizedKeys
    BY <1>4
  <2>3. \A a \in observed : a.id \in SyncIds => <<a.kind, a.key>> \in synchronizedKeys
    BY DEF IInv, SyncActionsAreRecorded
  <2> QED
    BY <2>1, <2>2, <2>3 DEF SyncActionsAreRecorded
<1>9. lastTick' <= now' /\ Startup' /\ BaselineIsKept'
  BY <1>4 DEF IInv, TypeOK, Startup, BaselineIsKept
<1> QED
  BY <1>5, <1>6, <1>7, <1>8, <1>9 DEF IInv

(* The inductive invariant of the tracker: what is processed was observed, what*)
(* was observed was seen, suppressed keys stay suppressed.                  *)
THEOREM Invariance == Spec => []IInv
<1>1. Init => IInv
  <2> SUFFICES ASSUME Init PROVE IInv
    OBVIOUS
  <2>1. TypeOK
    BY BoundsAssumption DEF Init, TypeOK, Surface
  <2> QED
    BY <2>1 DEF Init, IInv, Startup, ReportsAreProcessed, ProcessedAreObserved,
                RowActionsAreSeen, SyncActionsAreRecorded, BaselineIsKept
<1>2. IInv /\ TypeOK' /\ [Next]_vars => IInv'
  <2> SUFFICES ASSUME IInv, TypeOK', [Next]_vars PROVE IInv'
    OBVIOUS
  <2> USE DEF IInv
  <2>1. ASSUME NEW down \in SUBSET Flaky, Prime(Surface \ down) PROVE IInv'
    <3> DEFINE ok == Surface \ down
    <3>1. observed = {} /\ observed' = {}
      BY <2>1 DEF Prime, Startup
    <3>2. BaselineIsKept'
      <4>1. /\ baseline' = [rows |-> listed, polled |-> ok]
            /\ baselineKeys' = [s \in Surface |->
                 {row.key : row \in Polled(ok) \cap ListedOn(s)}]
        BY <2>1 DEF Prime
      <4>2. \A row \in listed : SurfaceOf(row) \in ok =>
              SurfaceOf(row) \in Surface /\ row \in Polled(ok) \cap ListedOn(SurfaceOf(row))
        BY DEF Polled, ListedOn
      <4> QED
        BY <4>1, <4>2 DEF BaselineIsKept
    <3>3. reports' = reports /\ processed' = processed /\ lastTick' = lastTick /\ now' = now
          /\ phase' = "loop"
      BY <2>1 DEF Prime
    <3> QED
      BY <3>1, <3>2, <3>3 DEF Startup, ReportsAreProcessed, ProcessedAreObserved,
         RowActionsAreSeen, SyncActionsAreRecorded
  <2>2. ASSUME NEW row \in Rows, Appear(row) PROVE IInv'
    BY <2>2 DEF Appear, tracker, Startup, ReportsAreProcessed, ProcessedAreObserved,
       RowActionsAreSeen, SyncActionsAreRecorded, BaselineIsKept
  <2>3. ASSUME NEW row \in Removable, Vanish(row) PROVE IInv'
    BY <2>3 DEF Vanish, tracker, Startup, ReportsAreProcessed, ProcessedAreObserved,
       RowActionsAreSeen, SyncActionsAreRecorded, BaselineIsKept
  <2>4. ASSUME NEW t \in 1..MaxTime, Iterate(t) PROVE IInv'
    <3>1. lastTick <= now'
      BY <2>4, TimesAssumption DEF Iterate, TypeOK
    <3> QED
      BY <2>4, <3>1 DEF Iterate, tracker, Startup, ReportsAreProcessed, ProcessedAreObserved,
         RowActionsAreSeen, SyncActionsAreRecorded, BaselineIsKept
  <2>5. ASSUME NEW key \in Keys, NEW cycle \in 1..MaxCycle,
               RecordSynchronized("download", key, cycle)
        PROVE  IInv'
    <3>1. /\ observed' = observed \cup {SyncAction(c, "download", key, cycle) : c \in Client}
          /\ synchronizedKeys' = synchronizedKeys \cup {<<"download", key>>}
          /\ phase = "loop" /\ phase' = phase
          /\ UNCHANGED <<listed, now, lastTick, seen, baselineKeys, processed, reports, baseline>>
      BY <2>5 DEF RecordSynchronized, Records
    <3>2. \A a \in observed' \ observed :
            /\ a.id \in SyncIds /\ a.kind = "download" /\ a.key = key
      BY <3>1, IdKinds DEF SyncAction
    <3>3. RowActionsAreSeen'
      BY <3>1, <3>2, IdKinds DEF RowActionsAreSeen
    <3>4. SyncActionsAreRecorded'
      BY <3>1, <3>2 DEF SyncActionsAreRecorded
    <3>5. Startup' /\ ReportsAreProcessed' /\ ProcessedAreObserved' /\ BaselineIsKept'
      BY <3>1 DEF Startup, ReportsAreProcessed, ProcessedAreObserved, BaselineIsKept
    <3> QED
      BY <3>1, <3>3, <3>4, <3>5
  <2>6. ASSUME NEW down \in SUBSET Flaky, Tick(Surface \ down) PROVE IInv'
    BY <2>6, TickPreserves
  <2>7. CASE UNCHANGED vars
    BY <2>7 DEF vars, tracker, TypeOK, Startup, ReportsAreProcessed, ProcessedAreObserved,
       RowActionsAreSeen, SyncActionsAreRecorded, BaselineIsKept
  <2> QED
    BY <2>1, <2>2, <2>3, <2>4, <2>5, <2>6, <2>7 DEF Next
<1> QED
  BY <1>1, <1>2, TypeCorrect, PTL DEF Spec

----------------------------------------------------------------------------
(* The greedy correlation is a matching: no action is in two pairs.          *)
LEMMA CorrelationIsMatching ==
  ASSUME NEW rusts \in SUBSET Action, NEW mfcs, NEW pairs \in SUBSET Candidates(rusts, mfcs),
         Correlation(rusts, mfcs, pairs),
         NEW p \in pairs, NEW q \in pairs, p[1] = q[1] \/ p[2] = q[2]
  PROVE  p = q
<1>1. /\ p \in rusts \X mfcs /\ q \in rusts \X mfcs
      /\ p[1] \in rusts /\ q[1] \in rusts
  BY DEF Candidates
<1>2. ASSUME NEW r \in rusts, NEW x \in pairs, x[1] = r
      PROVE  \E m \in FreeFor(r, mfcs, pairs) : \A y \in pairs : y[1] = r <=> y = <<r, m>>
  BY <1>2 DEF Correlation
<1>3. CASE p[1] = q[1]
  BY <1>1, <1>2, <1>3
<1>4. CASE p[2] = q[2] /\ p[1] # q[1]
  <2>1. p[2] \in FreeFor(p[1], mfcs, pairs) /\ q[2] \in FreeFor(q[1], mfcs, pairs)
    <3>1. PICK m \in FreeFor(p[1], mfcs, pairs) :
            \A y \in pairs : y[1] = p[1] <=> y = <<p[1], m>>
      BY <1>1, <1>2
    <3>2. PICK n \in FreeFor(q[1], mfcs, pairs) :
            \A y \in pairs : y[1] = q[1] <=> y = <<q[1], n>>
      BY <1>1, <1>2
    <3>3. p = <<p[1], m>> /\ q = <<q[1], n>>
      BY <3>1, <3>2
    <3>4. p[2] = m /\ q[2] = n
      BY <3>3
    <3> QED
      BY <3>4
  <2>2. Before(p[1], q[1]) /\ Before(q[1], p[1])
    BY <1>4, <2>1 DEF FreeFor
  <2>3. p[1].at \in Nat /\ q[1].at \in Nat /\ p[1].pos \in Nat /\ q[1].pos \in Nat
    BY <1>1 DEF Action
  <2> QED
    BY <2>2, <2>3 DEF Before
<1> QED
  BY <1>3, <1>4

(* So what one tick hands out never shares an action.                        *)
LEMMA OutcomeIsDisjoint ==
  ASSUME NEW actions \in SUBSET Action, NEW pairs,
         pairs \in SUBSET Candidates(ActiveOf("rust", actions), ActiveOf("mfc", actions)),
         Correlation(ActiveOf("rust", actions), ActiveOf("mfc", actions), pairs),
         NEW m1 \in Outcome(ActiveOf("rust", actions) \cup ActiveOf("mfc", actions), pairs),
         NEW m2 \in Outcome(ActiveOf("rust", actions) \cup ActiveOf("mfc", actions), pairs),
         m1 # m2
  PROVE  m1 \cap m2 = {}
<1> DEFINE rusts == ActiveOf("rust", actions)
           mfcs == ActiveOf("mfc", actions)
<1>1. /\ \A p \in pairs : p[1] \in rusts /\ p[2] \in mfcs
      /\ rusts \in SUBSET Action
      /\ \A r \in rusts, m \in mfcs : r # m
  BY DEF Candidates, ActiveOf
<1>2. \A p, q \in pairs : (p[1] = q[1] \/ p[2] = q[2]) => p = q
  BY <1>1, CorrelationIsMatching
<1> HIDE DEF rusts, mfcs
<1>3. \/ \E p \in pairs : m1 = {p[1], p[2]}
      \/ \E a \in (rusts \cup mfcs) \ Paired(pairs) : m1 = {a}
  BY DEF Outcome, rusts, mfcs
<1>4. \/ \E p \in pairs : m2 = {p[1], p[2]}
      \/ \E a \in (rusts \cup mfcs) \ Paired(pairs) : m2 = {a}
  BY DEF Outcome, rusts, mfcs
<1>5. ASSUME NEW p \in pairs, NEW q \in pairs, p # q
      PROVE  {p[1], p[2]} \cap {q[1], q[2]} = {}
  BY <1>1, <1>2, <1>5
<1>6. ASSUME NEW p \in pairs, NEW a, a \notin Paired(pairs)
      PROVE  a \notin {p[1], p[2]}
  BY <1>6 DEF Paired
<1>7. CASE \E p \in pairs : m1 = {p[1], p[2]}
  BY <1>4, <1>5, <1>6, <1>7
<1>8. CASE \E a \in (rusts \cup mfcs) \ Paired(pairs) : m1 = {a}
  BY <1>4, <1>6, <1>8
<1> QED
  BY <1>3, <1>7, <1>8

(* Only a tick reports, marks or advances the last tick's time.              *)
LEMMA OnlyTickReports ==
  ASSUME [Next]_vars, \A down \in SUBSET Flaky : ~Tick(Surface \ down)
  PROVE  reports' = reports /\ processed' = processed /\ lastTick' = lastTick
BY DEF Next, vars, tracker, Prime, Appear, Vanish, Iterate, RecordSynchronized, Records

(* Each action is handed out at most once, in one pair or alone, although    *)
(* every tick of ActionTracker correlates the active actions afresh.         *)
THEOREM AtMostOnce == Spec => []ReportedAtMostOnce
<1>1. Init => ReportedAtMostOnce
  BY DEF Init, ReportedAtMostOnce
<1>2. IInv /\ IInv' /\ ReportedAtMostOnce /\ [Next]_vars => ReportedAtMostOnce'
  <2> SUFFICES ASSUME IInv, IInv', ReportedAtMostOnce, [Next]_vars
               PROVE  ReportedAtMostOnce'
    OBVIOUS
  <2>1. CASE \A down \in SUBSET Flaky : ~Tick(Surface \ down)
    BY <2>1, OnlyTickReports DEF ReportedAtMostOnce
  <2>2. ASSUME NEW down \in SUBSET Flaky, Tick(Surface \ down)
        PROVE  ReportedAtMostOnce'
    <3> DEFINE ok == Surface \ down
    <3>1. PICK place, pairs : TickStep(ok, place, pairs)
      BY <2>2, TickHasStep
    <3> DEFINE actions == Ingested(ok, place)
               out == Outcome(ActiveOf("rust", actions) \cup ActiveOf("mfc", actions), pairs)
    <3>2. /\ \A m \in out : \A a \in m : a.id \notin processed
          /\ reports' = reports \cup {[members |-> m, at |-> now] : m \in out}
      BY <3>1, HandedOut
    <3>3. \A m1, m2 \in out : m1 # m2 => m1 \cap m2 = {}
      <4>1. actions \in SUBSET Action
        BY <3>1, IngestedType DEF TickStep, IInv
      <4>2. /\ pairs \in SUBSET Candidates(ActiveOf("rust", actions), ActiveOf("mfc", actions))
            /\ Correlation(ActiveOf("rust", actions), ActiveOf("mfc", actions), pairs)
        BY <3>1 DEF TickStep
      <4> HIDE DEF actions
      <4> QED
        BY <4>1, <4>2, OutcomeIsDisjoint
    <3> HIDE DEF out
    <3>4. \A r \in reports : \A a \in r.members : a.id \in processed
      BY DEF IInv, ReportsAreProcessed
    <3>5. \A r1 \in reports, m \in out : r1.members \cap m = {}
      BY <3>2, <3>4
    <3> QED
      BY <3>2, <3>3, <3>5 DEF ReportedAtMostOnce
  <2> QED
    BY <2>1, <2>2
<1> QED
  BY <1>1, <1>2, Invariance, PTL DEF Spec

(* After every tick nothing observed stays pending for longer than the       *)
(* correlation window plus the settle time of its kind.                      *)
THEOREM BoundedWait == Spec => []PendingIsBounded
<1>1. Init => PendingIsBounded
  BY DEF Init, PendingIsBounded
<1>2. IInv /\ IInv' /\ PendingIsBounded /\ [Next]_vars => PendingIsBounded'
  <2> SUFFICES ASSUME IInv, IInv', PendingIsBounded, [Next]_vars,
                      NEW a \in observed', a.id \notin processed'
               PROVE  lastTick' - a.at <= Window + SettleFor(a.kind)
    BY DEF PendingIsBounded, SettleFor
  <2>1. /\ a \in Action /\ a.at \in Nat /\ a.client \in Client
        /\ SettleFor(a.kind) \in Nat /\ Window \in Nat
        /\ now \in Nat /\ lastTick \in Int /\ lastTick <= now
    BY TimesAssumption DEF IInv, TypeOK, Action, SettleFor
  <2>2. CASE \A down \in SUBSET Flaky : ~Tick(Surface \ down)
    <3>1. processed' = processed /\ lastTick' = lastTick
      BY <2>2, OnlyTickReports
    <3>2. CASE a \in observed
      BY <3>1, <3>2 DEF PendingIsBounded
    <3>3. CASE a \notin observed
      <4>1. \E key \in Keys, cycle \in 1..MaxCycle : RecordSynchronized("download", key, cycle)
        BY <2>2, <3>3 DEF Next, vars, tracker, Prime, Appear, Vanish, Iterate
      <4>2. a.at = now
        BY <3>3, <4>1 DEF RecordSynchronized, Records, SyncAction
      <4> QED
        BY <2>1, <3>1, <4>2
    <3> QED
      BY <3>2, <3>3
  <2>3. ASSUME NEW down \in SUBSET Flaky, Tick(Surface \ down)
        PROVE  lastTick' - a.at <= Window + SettleFor(a.kind)
    <3> DEFINE ok == Surface \ down
    <3>1. PICK place, pairs : TickStep(ok, place, pairs)
      BY <2>3, TickHasStep
    <3> DEFINE actions == Ingested(ok, place)
               rusts == ActiveOf("rust", actions)
               mfcs == ActiveOf("mfc", actions)
               out == Outcome(rusts \cup mfcs, pairs)
    <3>2. /\ lastTick' = now /\ observed' = actions
          /\ processed' = processed \cup {b.id : b \in UNION out}
          /\ pairs \subseteq Candidates(rusts, mfcs)
      BY <2>3, <3>1 DEF Tick, Ticks, TickStep
    <3>3. a \in rusts \cup mfcs
      BY <2>1, <3>2 DEF ActiveOf, Client
    <3>4. \A m \in out : a \notin m
      BY <3>2
    <3> HIDE DEF rusts, mfcs
    <3>5. CASE a \notin Paired(pairs)
      <4>1. ~Aged(a)
        BY <3>3, <3>4, <3>5 DEF Outcome
      <4> QED
        BY <2>1, <3>2, <4>1 DEF Aged
    <3>6. ASSUME NEW p \in pairs, a = p[1] \/ a = p[2]
          PROVE  now - a.at <= Window + SettleFor(a.kind)
      <4>1. ~Ready(p)
        <5>1. a \in {p[1], p[2]}
          BY <3>6
        <5>2. Ready(p) => {p[1], p[2]} \in out
          BY DEF Outcome
        <5> QED
          BY <3>4, <5>1, <5>2
      <4>2. Compatible(p[1], p[2]) /\ p[1] \in rusts /\ p[2] \in mfcs
        BY <3>2 DEF Candidates
      <4>3. p[1].at \in Nat /\ p[2].at \in Nat /\ p[1].kind = p[2].kind
        BY <3>2, <4>2 DEF Compatible, rusts, mfcs, ActiveOf, IInv, TypeOK, Action
      <4>4. /\ Distance(p[1], p[2]) <= Window
            /\ now < LaterAt(p) + SettleFor(a.kind)
        BY <2>1, <3>6, <4>1, <4>2, <4>3 DEF Ready, LaterAt, Compatible
      <4>5. p[1].at - a.at <= Window /\ p[2].at - a.at <= Window
        BY <2>1, <3>6, <4>3, <4>4 DEF Distance
      <4> QED
        BY <2>1, <4>3, <4>4, <4>5 DEF LaterAt
    <3> QED
      BY <3>2, <3>5, <3>6 DEF Paired
  <2> QED
    BY <2>2, <2>3
<1> QED
  BY <1>1, <1>2, Invariance, PTL DEF Spec

(* What a client lists for the driver's own synchronized download is never   *)
(* observed as another action.                                               *)
THEOREM NoEcho == Spec => []EchoSuppressed
<1>1. Init => EchoSuppressed
  BY DEF Init, EchoSuppressed
<1>2. IInv /\ IInv' /\ EchoSuppressed /\ [Next]_vars => EchoSuppressed'
  <2> SUFFICES ASSUME IInv, IInv', EchoSuppressed, [Next]_vars,
                      NEW a \in observed', NEW b \in observed',
                      a.id \in SyncIds, b.id \in RowIds, a.kind = b.kind, a.key = b.key
               PROVE  b.at < a.at
    BY DEF EchoSuppressed
  <2>1. CASE a \in observed /\ b \in observed
    BY <2>1 DEF EchoSuppressed
  <2>2. CASE a \notin observed
    <3>1. ASSUME NEW down \in SUBSET Flaky, Tick(Surface \ down) PROVE FALSE
      <4>1. PICK place, pairs : TickStep(Surface \ down, place, pairs)
        BY <3>1, TickHasStep
      <4>2. a \in Ingested(Surface \ down, place) \ observed
        BY <2>2, <4>1 DEF TickStep
      <4>3. PICK row \in NewRows(Surface \ down) : row \in Rows /\ a.id = <<"row", row.id>>
        BY <4>2, NewActions DEF IInv
      <4> QED
        BY <4>3, IdKinds
    <3>2. PICK key \in Keys, cycle \in 1..MaxCycle : RecordSynchronized("download", key, cycle)
      BY <2>2, <3>1 DEF Next, vars, tracker, Prime, Appear, Vanish, Iterate
    <3>3. a.at = now /\ b \in observed /\ lastTick < now
      BY <2>2, <3>2, IdKinds DEF RecordSynchronized, Records, SyncAction
    <3>4. b.at <= lastTick /\ b.at \in Nat
      BY <3>3 DEF IInv, RowActionsAreSeen, TypeOK, Action
    <3> QED
      BY <3>3, <3>4 DEF IInv, TypeOK
  <2>3. CASE a \in observed /\ b \notin observed
    <3>1. PICK down \in SUBSET Flaky : Tick(Surface \ down)
      <4>1. ~\E key \in Keys, cycle \in 1..MaxCycle : RecordSynchronized("download", key, cycle)
        BY <2>3, IdKinds DEF RecordSynchronized, Records, SyncAction
      <4> QED
        BY <2>3, <4>1 DEF Next, vars, tracker, Prime, Appear, Vanish, Iterate
    <3>2. PICK place, pairs : TickStep(Surface \ down, place, pairs)
      BY <3>1, TickHasStep
    <3>3. b \in Ingested(Surface \ down, place) \ observed
      BY <2>3, <3>2 DEF TickStep
    <3>4. PICK row \in NewRows(Surface \ down) : b.kind = row.kind /\ b.key = row.key
      BY <3>3, NewActions DEF IInv
    <3>5. <<a.kind, a.key>> \in synchronizedKeys
      BY <2>3 DEF IInv, SyncActionsAreRecorded
    <3> QED
      BY <3>4, <3>5 DEF NewRows
  <2> QED
    BY <2>1, <2>2, <2>3
<1> QED
  BY <1>1, <1>2, Invariance, PTL DEF Spec

(* What existed when prime() ran and could be read never becomes an action.  *)
THEOREM BaselineRespected == Spec => []PolledBaselineSilent
<1>1. IInv => PolledBaselineSilent
  BY DEF IInv, PolledBaselineSilent, FromBaseline, RowActionsAreSeen, BaselineIsKept
<1> QED
  BY <1>1, Invariance, PTL

----------------------------------------------------------------------------
(* On one client's list of one kind, an id stands for one action.            *)
OwnIds == \A a, b \in observed : SurfaceOf(a) = SurfaceOf(b) /\ a.id = b.id => a = b

(* A row is taken up once, since its id is seen from then on, and a list has *)
(* no second row of that id.                                                *)
LEMMA IdsStayOwn == Spec => [](OwnIds /\ IdsNameRows(listed))
<1>1. Init => OwnIds /\ IdsNameRows(listed)
  BY DEF Init, OwnIds
<1>2. IInv /\ IInv' /\ OwnIds /\ IdsNameRows(listed) /\ [Next]_vars
        => OwnIds' /\ IdsNameRows(listed)'
  <2> SUFFICES ASSUME IInv, IInv', OwnIds, IdsNameRows(listed), [Next]_vars
               PROVE  OwnIds' /\ IdsNameRows(listed)'
    OBVIOUS
  <2>1. IdsNameRows(listed)'
    <3>1. ASSUME NEW row \in Rows, Appear(row) PROVE IdsNameRows(listed)'
      BY <3>1 DEF Appear, IdsNameRows, ListedOn
    <3>2. CASE listed' \subseteq listed
      BY <3>2 DEF IdsNameRows
    <3> QED
      BY <3>1, <3>2 DEF Next, vars, Prime, Vanish, Iterate, RecordSynchronized, Tick
  <2>2. CASE observed' = observed
    BY <2>1, <2>2 DEF OwnIds
  <2>3. ASSUME NEW key \in Keys, NEW cycle \in 1..MaxCycle,
               RecordSynchronized("download", key, cycle)
        PROVE  OwnIds'
    <3>1. /\ observed' = observed \cup {SyncAction(c, "download", key, cycle) : c \in Client}
          /\ \A a \in observed, c \in Client : a.id # <<c, cycle>>
      BY <2>3 DEF RecordSynchronized, Records
    <3>2. \A a \in observed' \ observed : \E c \in Client :
            a = SyncAction(c, "download", key, cycle) /\ a.id = <<c, cycle>>
      BY <3>1 DEF SyncAction
    <3> SUFFICES ASSUME NEW a \in observed', NEW b \in observed',
                        SurfaceOf(a) = SurfaceOf(b), a.id = b.id
                 PROVE  a = b
      BY DEF OwnIds
    <3>3. CASE a \in observed /\ b \in observed
      BY <3>3 DEF OwnIds
    <3>4. CASE a \notin observed /\ b \notin observed
      BY <3>2, <3>4
    <3>5. CASE a \in observed /\ b \notin observed
      BY <3>1, <3>2, <3>5
    <3>6. CASE a \notin observed /\ b \in observed
      BY <3>1, <3>2, <3>6
    <3> QED
      BY <3>3, <3>4, <3>5, <3>6
  <2>4. ASSUME NEW down \in SUBSET Flaky, Tick(Surface \ down)
        PROVE  OwnIds'
    <3> DEFINE ok == Surface \ down
    <3>1. PICK place, pairs : TickStep(ok, place, pairs)
      BY <2>4, TickHasStep
    <3>2. \A a \in observed' \ observed : \E row \in NewRows(ok) :
            /\ row \in listed /\ a = RowAction(row, place[row])
            /\ a.id = <<"row", row.id>> /\ a.id \in RowIds /\ SurfaceOf(a) = SurfaceOf(row)
            /\ a.id \notin seen[SurfaceOf(row)]
      <4> SUFFICES ASSUME NEW a \in observed' \ observed
                   PROVE  \E row \in NewRows(ok) :
            /\ row \in listed /\ a = RowAction(row, place[row])
            /\ a.id = <<"row", row.id>> /\ a.id \in RowIds /\ SurfaceOf(a) = SurfaceOf(row)
            /\ a.id \notin seen[SurfaceOf(row)]
        OBVIOUS
      <4>1. PICK row \in NewRows(ok) : a = RowAction(row, place[row])
        BY <3>1 DEF TickStep, Ingested
      <4>2. row \in listed /\ row \in Rows /\ <<"row", row.id>> \notin seen[SurfaceOf(row)]
        BY NewRowsAreListed DEF NewRows, Fresh, IInv
      <4> QED
        BY <4>1, <4>2, IdKinds DEF RowAction, SurfaceOf
    <3>3. \A a \in observed', b \in observed' \ observed :
            SurfaceOf(a) = SurfaceOf(b) /\ a.id = b.id => a = b
      <4> SUFFICES ASSUME NEW a \in observed', NEW b \in observed' \ observed,
                          SurfaceOf(a) = SurfaceOf(b), a.id = b.id
                   PROVE  a = b
        OBVIOUS
      <4>1. PICK row \in NewRows(ok) :
              /\ row \in listed /\ b = RowAction(row, place[row])
              /\ b.id = <<"row", row.id>> /\ b.id \in RowIds /\ SurfaceOf(b) = SurfaceOf(row)
              /\ b.id \notin seen[SurfaceOf(row)]
        BY <3>2
      <4>2. a \notin observed
        BY <4>1 DEF IInv, RowActionsAreSeen
      <4>3. PICK other \in NewRows(ok) :
              /\ other \in listed /\ a = RowAction(other, place[other])
              /\ a.id = <<"row", other.id>> /\ SurfaceOf(a) = SurfaceOf(other)
        BY <3>2, <4>2
      <4>4. other = row
        BY <4>1, <4>3 DEF IdsNameRows
      <4> QED
        BY <4>1, <4>3, <4>4
    <3> QED
      BY <3>3 DEF OwnIds
  <2> QED
    BY <2>1, <2>2, <2>3, <2>4 DEF Next, vars, tracker, Prime, Appear, Vanish, Iterate
<1> QED
  BY <1>1, <1>2, Invariance, PTL DEF Spec

(* Some action of every processed id was reported.                           *)
ProcessedAreReported == \A id \in processed : \E a \in observed : Reported(a) /\ a.id = id

LEMMA EveryIdIsReported == Spec => []ProcessedAreReported
<1>1. Init => ProcessedAreReported
  BY DEF Init, ProcessedAreReported
<1>2. IInv /\ ProcessedAreReported /\ [Next]_vars => ProcessedAreReported'
  <2> SUFFICES ASSUME IInv, ProcessedAreReported, [Next]_vars PROVE ProcessedAreReported'
    OBVIOUS
  <2>1. CASE \A down \in SUBSET Flaky : ~Tick(Surface \ down)
    <3>1. observed \subseteq observed'
      BY <2>1 DEF Next, vars, tracker, Prime, Appear, Vanish, Iterate, RecordSynchronized, Records
    <3> QED
      BY <2>1, <3>1, OnlyTickReports DEF ProcessedAreReported, Reported
  <2>2. ASSUME NEW down \in SUBSET Flaky, Tick(Surface \ down) PROVE ProcessedAreReported'
    <3>1. PICK place, pairs : TickStep(Surface \ down, place, pairs)
      BY <2>2, TickHasStep
    <3> DEFINE actions == Ingested(Surface \ down, place)
               out == Outcome(ActiveOf("rust", actions) \cup ActiveOf("mfc", actions), pairs)
    <3>2. /\ \A m \in out : m \subseteq observed'
          /\ processed' = processed \cup {b.id : b \in UNION out}
          /\ reports' = reports \cup {[members |-> m, at |-> now] : m \in out}
      BY <3>1, HandedOut
    <3>3. observed \subseteq observed'
      BY <3>1 DEF TickStep, Ingested
    <3> HIDE DEF out
    <3> SUFFICES ASSUME NEW id \in processed'
                 PROVE  \E a \in observed' : (\E r \in reports' : a \in r.members) /\ a.id = id
      BY DEF ProcessedAreReported, Reported
    <3>4. CASE id \in processed
      BY <3>2, <3>3, <3>4 DEF ProcessedAreReported, Reported
    <3>5. CASE id \notin processed
      <4>1. PICK m \in out : \E a \in m : a.id = id
        BY <3>2, <3>5
      <4>2. [members |-> m, at |-> now] \in reports' /\ m \subseteq observed'
        BY <3>2
      <4> QED
        BY <4>1, <4>2
    <3> QED
      BY <3>4, <3>5
  <2> QED
    BY <2>1, <2>2
<1> QED
  BY <1>1, <1>2, Invariance, PTL DEF Spec

(* What drops out of the campaign without a verdict bears the id of a reported  *)
(* action of another client or kind, whatever ids rows have: the set of bare   *)
(* ids in ActionTracker loses nothing else.                                 *)
THEOREM OnlyNamesakesHide == Spec => []HiddenByNamesake
<1>1. OwnIds /\ ProcessedAreReported => HiddenByNamesake
  <2> SUFFICES ASSUME OwnIds, ProcessedAreReported, NEW a \in observed, Hidden(a)
               PROVE  \E b \in observed : Reported(b) /\ b.id = a.id /\ SurfaceOf(b) # SurfaceOf(a)
    BY DEF HiddenByNamesake
  <2>1. PICK b \in observed : Reported(b) /\ b.id = a.id
    BY DEF Hidden, ProcessedAreReported
  <2> QED
    BY <2>1 DEF Hidden, OwnIds
<1> QED
  BY <1>1, IdsStayOwn, EveryIdIsReported, PTL

----------------------------------------------------------------------------
(* The actions that were reported alone have aged out, ...                        *)
Loners(client) == {a \in observed : a.client = client /\ \E r \in reports : r.members = {a}}

LonersAreOld ==
  \A c \in Client : \A a \in Loners(c) : lastTick - a.at > Window + SettleFor(a.kind)

(* ... and actions that may pair with one and the same action are never tied.      *)
OldActions == \A a \in observed : a.at <= now
SyncPlaced ==
  \A a \in observed : a.id \in SyncIds => a.id = <<a.client, a.pos>>
NoTies ==
  \A a, b \in observed :
    (a.client = b.client /\ a.kind = b.kind /\ a.key = b.key /\ a # b)
      => a.at # b.at \/ a.pos # b.pos

Placed == OldActions /\ SyncPlaced /\ NoTies

----------------------------------------------------------------------------
(* A nonempty set of natural numbers has a least one, ...                       *)
LEMMA LeastNatural ==
  ASSUME NEW S \in SUBSET Nat, S # {}
  PROVE  \E n \in S : \A m \in S : n <= m
<1> DEFINE R == OpToRel(<, Nat)
<1>1. IsWellFoundedOn(R, Nat)
  BY NatLessThanWellFounded
<1>2. \A x, y \in Nat : x < y => <<x, y>> \in R
  BY DEF OpToRel
<1> HIDE DEF R
<1>3. PICK n \in S : \A m \in S : <<m, n>> \notin R
  BY <1>1, WFMin
<1>4. \A m \in S : ~ (m < n)
  <2> SUFFICES ASSUME NEW m \in S, m < n PROVE FALSE
    OBVIOUS
  <2>1. m \in Nat /\ n \in Nat
    OBVIOUS
  <2> QED
    BY <1>2, <1>3, <2>1
<1>5. \A m \in S : m \in Nat /\ n \in Nat
  OBVIOUS
<1> QED
  BY <1>4, <1>5

(* ... so among actions there is one that none of them comes before.             *)
LEMMA FirstAction ==
  ASSUME NEW T \in SUBSET Action, T # {}
  PROVE  \E r \in T : \A q \in T : ~Before(q, r)
<1>1. \A a \in T : a.at \in Nat /\ a.pos \in Nat
  BY DEF Action
<1> DEFINE times == {a.at : a \in T}
<1>2. PICK t \in times : \A u \in times : t <= u
  <2>1. times \in SUBSET Nat /\ times # {}
    BY <1>1
  <2> HIDE DEF times
  <2> QED
    BY <2>1, LeastNatural
<1> DEFINE early == {a \in T : a.at = t}
           places == {a.pos : a \in early}
<1>3. PICK p \in places : \A u \in places : p <= u
  <2>1. places \in SUBSET Nat /\ places # {}
    BY <1>1, <1>2
  <2> HIDE DEF places
  <2> QED
    BY <2>1, LeastNatural
<1>4. PICK r \in early : r.pos = p
  BY <1>3
<1>5. ASSUME NEW q \in T, Before(q, r) PROVE FALSE
  <2>1. r.at = t /\ r.at <= q.at
    BY <1>2, <1>4
  <2>2. q.at = r.at /\ q.pos < r.pos
    BY <1>1, <1>4, <1>5, <2>1 DEF Before
  <2>3. q.pos \in places
    BY <2>1, <2>2
  <2>4. r.pos <= q.pos
    BY <1>3, <1>4, <2>3
  <2> QED
    BY <1>1, <1>4, <2>2, <2>4
<1> QED
  BY <1>4, <1>5

----------------------------------------------------------------------------
(* correlate_actions() gives every rust action the nearest free mfc action.      *)
Takes(r, m, mfcs, pairs) ==
  /\ m \in FreeFor(r, mfcs, pairs) /\ <<r, m>> \in pairs
  /\ \A p \in pairs : p[1] = r => p = <<r, m>>
  /\ \A other \in FreeFor(r, mfcs, pairs) \ {m} : Nearer(r, m, other)

LEMMA TakesNearest ==
  ASSUME NEW rusts, NEW mfcs, NEW pairs, Correlation(rusts, mfcs, pairs),
         NEW r \in rusts, NEW any \in FreeFor(r, mfcs, pairs)
  PROVE  \E m : Takes(r, m, mfcs, pairs)
BY DEF Correlation, Takes

LEMMA PartnerWasFree ==
  ASSUME NEW rusts, NEW mfcs, NEW pairs \in SUBSET Candidates(rusts, mfcs),
         Correlation(rusts, mfcs, pairs), NEW p \in pairs
  PROVE  p[1] \in rusts /\ p[2] \in mfcs /\ p = <<p[1], p[2]>>
         /\ Compatible(p[1], p[2]) /\ p[2] \in FreeFor(p[1], mfcs, pairs)
<1>1. p[1] \in rusts /\ p[2] \in mfcs /\ p = <<p[1], p[2]>> /\ Compatible(p[1], p[2])
  BY DEF Candidates
<1>2. PICK any : any \in FreeFor(p[1], mfcs, pairs)
  <2>1. FreeFor(p[1], mfcs, pairs) # {}
    BY <1>1 DEF Correlation
  <2> QED
    BY <2>1
<1>3. PICK m : Takes(p[1], m, mfcs, pairs)
  BY <1>1, <1>2, TakesNearest
<1>4. p = <<p[1], m>> /\ m \in FreeFor(p[1], mfcs, pairs)
  BY <1>3 DEF Takes
<1>5. p[2] = m
  BY <1>4
<1> QED
  BY <1>1, <1>4, <1>5

(* New actions never take a partner away from an older rust action: what was     *)
(* free for it stays free.  For the first of which this is not true, an earlier *)
(* one would have left the nearer partner that was free for it.               *)
LEMMA NewcomersTakeNothing ==
  ASSUME NEW rusts2 \in SUBSET Action, NEW mfcs2 \in SUBSET Action,
         NEW rusts1 \in SUBSET rusts2, NEW mfcs1 \in SUBSET mfcs2,
         NEW pairs1 \in SUBSET Candidates(rusts1, mfcs1), Correlation(rusts1, mfcs1, pairs1),
         NEW pairs2 \in SUBSET Candidates(rusts2, mfcs2), Correlation(rusts2, mfcs2, pairs2),
         \A r \in rusts1, q \in rusts2 \ rusts1 : r.at < q.at,
         \A r, q \in rusts2 : (r.kind = q.kind /\ r.key = q.key /\ r # q)
            => r.at # q.at \/ r.pos # q.pos,
         NEW r0 \in rusts1
  PROVE  FreeFor(r0, mfcs1, pairs1) \subseteq FreeFor(r0, mfcs2, pairs2)
<1> DEFINE bad == {r \in rusts1 : ~(FreeFor(r, mfcs1, pairs1) \subseteq FreeFor(r, mfcs2, pairs2))}
<1> SUFFICES ASSUME bad # {} PROVE FALSE
  OBVIOUS
<1>1. PICK r \in bad : \A q \in bad : ~Before(q, r)
  <2>1. bad \in SUBSET Action
    OBVIOUS
  <2> HIDE DEF bad
  <2> QED
    BY <2>1, FirstAction
<1>2. PICK m : m \in FreeFor(r, mfcs1, pairs1) /\ m \notin FreeFor(r, mfcs2, pairs2)
  OBVIOUS
<1>3. m \in mfcs1 /\ m \in mfcs2 /\ Compatible(r, m) /\ r \in rusts1 /\ r \in rusts2
  BY <1>2 DEF FreeFor
<1>4. PICK p \in pairs2 : p[2] = m /\ p[1] # r /\ ~Before(r, p[1])
  BY <1>2, <1>3 DEF FreeFor
<1> DEFINE q == p[1]
<1>5. q \in rusts2 /\ p = <<q, m>> /\ Compatible(q, m) /\ m \in FreeFor(q, mfcs2, pairs2)
  BY <1>4, PartnerWasFree
<1> HIDE DEF q
<1>6. r.at \in Nat /\ q.at \in Nat /\ r.pos \in Nat /\ q.pos \in Nat /\ m.at \in Nat /\ m.pos \in Nat
  BY <1>3, <1>5 DEF Action
<1>7. Before(q, r) /\ q # r /\ ~Before(r, q)
  <2>1. r.kind = q.kind /\ r.key = q.key
    BY <1>3, <1>5 DEF Compatible
  <2> QED
    BY <1>3, <1>4, <1>5, <1>6, <2>1 DEF Before, q
<1>8. q \in rusts1 /\ q \notin bad
  <2>1. q \in rusts1
    BY <1>3, <1>5, <1>6, <1>7 DEF Before
  <2> HIDE DEF bad
  <2> QED
    BY <1>1, <1>7, <2>1
<1>9. FreeFor(q, mfcs1, pairs1) \subseteq FreeFor(q, mfcs2, pairs2)
  BY <1>8
<1>10. m \in FreeFor(q, mfcs1, pairs1)
  <2> SUFFICES ASSUME NEW x \in pairs1, x[2] = m PROVE x[1] = q \/ Before(q, x[1])
    BY <1>3, <1>5 DEF FreeFor
  <2>1. x[1] = r \/ Before(r, x[1])
    BY <1>2 DEF FreeFor
  <2>2. x[1].at \in Nat /\ x[1].pos \in Nat
    BY PartnerWasFree DEF Action
  <2> QED
    BY <1>6, <1>7, <2>1, <2>2 DEF Before
<1>11. PICK n : Takes(q, n, mfcs1, pairs1)
  <2>1. q \in rusts1 /\ m \in FreeFor(q, mfcs1, pairs1)
    BY <1>8, <1>10
  <2> QED
    BY <2>1, TakesNearest
<1>12. n # m
  <2> SUFFICES ASSUME n = m PROVE FALSE
    OBVIOUS
  <2>1. <<q, m>> \in pairs1 /\ <<q, m>>[1] = q /\ <<q, m>>[2] = m
    BY <1>11 DEF Takes
  <2>2. q = r \/ Before(r, q)
    BY <1>2, <2>1 DEF FreeFor
  <2> QED
    BY <1>7, <2>2
<1>13. Nearer(q, n, m) /\ n \in FreeFor(q, mfcs2, pairs2)
  BY <1>9, <1>10, <1>11, <1>12 DEF Takes
<1>14. PICK k : Takes(q, k, mfcs2, pairs2)
  <2>1. q \in rusts2 /\ m \in FreeFor(q, mfcs2, pairs2)
    BY <1>5
  <2> QED
    BY <2>1, TakesNearest
<1>15. k = m
  <2>1. p[1] = q /\ p[2] = m
    BY <1>4 DEF q
  <2>2. p = <<q, k>>
    BY <1>14, <2>1 DEF Takes
  <2> QED
    BY <2>1, <2>2
<1>16. Nearer(q, m, n)
  BY <1>12, <1>13, <1>14, <1>15 DEF Takes
<1>17. n.at \in Nat /\ n.pos \in Nat
  BY <1>13 DEF FreeFor, Action
<1> QED
  BY <1>6, <1>13, <1>16, <1>17 DEF Nearer, Distance, Before

(* Pairs that leave together, and actions that leave alone, change nothing for   *)
(* those that stay.                                                         *)
StayTogether(pairs, left, rustsLeft, mfcsLeft) ==
  \A p \in pairs : (p \in left <=> p[1] \in rustsLeft) /\ (p \in left <=> p[2] \in mfcsLeft)

LEMMA PairsLeaveTogether ==
  ASSUME NEW rusts, NEW mfcs, NEW pairs \in SUBSET Candidates(rusts, mfcs),
         Correlation(rusts, mfcs, pairs),
         NEW rustsLeft \in SUBSET rusts, NEW mfcsLeft \in SUBSET mfcs,
         NEW left \in SUBSET pairs, StayTogether(pairs, left, rustsLeft, mfcsLeft)
  PROVE  left \subseteq Candidates(rustsLeft, mfcsLeft) /\ Correlation(rustsLeft, mfcsLeft, left)
<1> USE DEF StayTogether
<1>1. left \subseteq Candidates(rustsLeft, mfcsLeft)
  <2> SUFFICES ASSUME NEW p \in left PROVE p \in Candidates(rustsLeft, mfcsLeft)
    OBVIOUS
  <2>0. p \in pairs /\ p[1] \in rustsLeft /\ p[2] \in mfcsLeft
    OBVIOUS
  <2>1. p = <<p[1], p[2]>> /\ Compatible(p[1], p[2])
    BY <2>0, PartnerWasFree
  <2> QED
    BY <2>0, <2>1 DEF Candidates
<1>2. \A r \in rustsLeft : FreeFor(r, mfcsLeft, left) = FreeFor(r, mfcs, pairs) \cap mfcsLeft
  BY DEF FreeFor
<1>3. ASSUME NEW r \in rustsLeft, FreeFor(r, mfcsLeft, left) = {}
      PROVE  \A p \in left : p[1] # r
  <2> SUFFICES ASSUME NEW p \in left, p[1] = r PROVE FALSE
    OBVIOUS
  <2>1. p[2] \in FreeFor(r, mfcs, pairs) /\ p[2] \in mfcsLeft
    BY PartnerWasFree
  <2> QED
    BY <1>2, <1>3, <2>1
<1>4. ASSUME NEW r \in rustsLeft, FreeFor(r, mfcsLeft, left) # {}
      PROVE  \E m \in FreeFor(r, mfcsLeft, left) :
               /\ \A p \in left : p[1] = r <=> p = <<r, m>>
               /\ <<r, m>> \in left
               /\ \A other \in FreeFor(r, mfcsLeft, left) \ {m} : Nearer(r, m, other)
  <2>1. PICK any : any \in FreeFor(r, mfcs, pairs)
    BY <1>2, <1>4
  <2>2. PICK m : Takes(r, m, mfcs, pairs)
    BY <2>1, TakesNearest
  <2> DEFINE pair == <<r, m>>
  <2>3. pair[1] = r /\ pair[2] = m
    OBVIOUS
  <2>4. pair \in left /\ m \in mfcsLeft
    <3>1. pair \in pairs
      BY <2>2 DEF Takes
    <3> HIDE DEF pair
    <3>2. pair \in left
      BY <2>3, <3>1
    <3> QED
      BY <2>3, <3>1, <3>2
  <2>5. \A p \in left : p[1] = r <=> p = <<r, m>>
    BY <2>2, <2>3 DEF Takes
  <2> QED
    BY <1>2, <2>2, <2>4, <2>5 DEF Takes
<1> QED
  BY <1>1, <1>3, <1>4 DEF Correlation

----------------------------------------------------------------------------
(* Actions that a tick makes of rows get this tick's time, behind the            *)
(* synchronized ones, and different places if they could be confused.         *)
LEMMA TickPlaces ==
  ASSUME IInv, Placed, NEW ok, NEW place, NEW pairs, TickStep(ok, place, pairs),
         lastTick < now, now' = now
  PROVE  Placed' /\ \A a \in observed' \ observed : a.at = now
<1>1. /\ observed' = Ingested(ok, place) /\ observed \subseteq Action
      /\ now \in Nat /\ lastTick \in Int /\ MaxCycle \in Nat
  BY TimesAssumption DEF TickStep, IInv, TypeOK
<1>2. \A row \in NewRows(ok) : place[row] \in Nat
  <2>1. NewRows(ok) \subseteq Rows
    BY NewRowsAreListed DEF IInv
  <2> QED
    BY <2>1, PlacingsType DEF TickStep
<1>3. \A a \in observed' \ observed : \E row \in NewRows(ok) :
        /\ a = RowAction(row, place[row]) /\ a.at = now /\ a.pos = MaxCycle + 1 + place[row]
        /\ a.client = row.client /\ a.kind = row.kind /\ a.key = row.key /\ a.id \in RowIds
  <2> SUFFICES ASSUME NEW a \in observed' \ observed
               PROVE  \E row \in NewRows(ok) :
        /\ a = RowAction(row, place[row]) /\ a.at = now /\ a.pos = MaxCycle + 1 + place[row]
        /\ a.client = row.client /\ a.kind = row.kind /\ a.key = row.key /\ a.id \in RowIds
    OBVIOUS
  <2>1. PICK row \in NewRows(ok) : a = RowAction(row, place[row])
    BY <1>1 DEF Ingested
  <2>2. <<"row", row.id>> \in RowIds
    BY NewRowsAreListed DEF RowIds, IInv
  <2> QED
    BY <2>1, <2>2 DEF RowAction
<1>4. OldActions'
  BY <1>1, <1>3 DEF OldActions, Placed
<1>5. SyncPlaced'
  BY <1>3, IdKinds DEF SyncPlaced, Placed
<1>6. ASSUME NEW a \in observed, NEW b \in observed' \ observed, a.at = b.at
      PROVE  a.pos # b.pos
  <2>1. PICK row \in NewRows(ok) : b.at = now /\ b.pos = MaxCycle + 1 + place[row]
    BY <1>3
  <2>2. a.id \in SyncIds
    <3>1. a.id \in RowIds \/ a.id \in SyncIds
      BY <1>1 DEF Action, Ids
    <3>2. a.id \in RowIds => a.at <= lastTick
      BY DEF IInv, RowActionsAreSeen
    <3> QED
      BY <1>1, <1>6, <2>1, <3>1, <3>2
  <2>3. a.id = <<a.client, a.pos>>
    BY <2>2 DEF Placed, SyncPlaced
  <2>4. a.pos \in 1..MaxCycle
    BY <2>2, <2>3 DEF SyncIds
  <2>5. place[row] \in Nat
    BY <1>2
  <2> QED
    BY <1>1, <2>1, <2>4, <2>5
<1>7. NoTies'
  <2> SUFFICES ASSUME NEW a \in observed', NEW b \in observed',
                      a.client = b.client, a.kind = b.kind, a.key = b.key, a # b, a.at = b.at
               PROVE  a.pos # b.pos
    BY DEF NoTies
  <2>1. CASE a \in observed /\ b \in observed
    BY <2>1 DEF Placed, NoTies
  <2>2. CASE a \in observed /\ b \notin observed
    BY <1>6, <2>2
  <2>3. CASE a \notin observed /\ b \in observed
    BY <1>6, <2>3
  <2>4. CASE a \notin observed /\ b \notin observed
    <3>1. PICK row \in NewRows(ok) :
            /\ a = RowAction(row, place[row]) /\ a.pos = MaxCycle + 1 + place[row]
            /\ a.client = row.client /\ a.kind = row.kind /\ a.key = row.key
      BY <1>3, <2>4
    <3>2. PICK other \in NewRows(ok) :
            /\ b = RowAction(other, place[other]) /\ b.pos = MaxCycle + 1 + place[other]
            /\ b.client = other.client /\ b.kind = other.kind /\ b.key = other.key
      BY <1>3, <2>4
    <3>3. row # other /\ Twins(row, other)
      BY <3>1, <3>2 DEF Twins, SurfaceOf
    <3>4. place[row] # place[other]
      BY <3>3 DEF TickStep, Placings
    <3> QED
      BY <1>1, <1>2, <3>1, <3>2, <3>4
  <2> QED
    BY <2>1, <2>2, <2>3, <2>4
<1> QED
  BY <1>3, <1>4, <1>5, <1>7 DEF Placed

(* What a tick hands out of the actions it correlates: pairs whose window has    *)
(* closed leave together, an action that leaves alone has no partner and is old. *)
LEMMA WhoLeaves ==
  ASSUME NEW rusts \in SUBSET Action, NEW mfcs \in SUBSET Action,
         \A r \in rusts, m \in mfcs : r # m,
         NEW pairs \in SUBSET Candidates(rusts, mfcs), Correlation(rusts, mfcs, pairs)
  PROVE  /\ \A p \in pairs : /\ p[1] \in UNION Outcome(rusts \cup mfcs, pairs) <=> Ready(p)
                             /\ p[2] \in UNION Outcome(rusts \cup mfcs, pairs) <=> Ready(p)
         /\ \A a : {a} \in Outcome(rusts \cup mfcs, pairs) =>
              a \in rusts \cup mfcs /\ a \notin Paired(pairs) /\ Aged(a)
<1> DEFINE out == Outcome(rusts \cup mfcs, pairs)
<1>1. \A p \in pairs : p[1] \in rusts /\ p[2] \in mfcs
  BY PartnerWasFree
<1>2. \A p, q \in pairs : (p[1] = q[1] \/ p[2] = q[2]) => p = q
  BY CorrelationIsMatching
<1>3. \A p \in pairs : Ready(p) => {p[1], p[2]} \in out
  BY DEF Outcome
<1>4. ASSUME NEW p \in pairs, p[1] \in UNION out \/ p[2] \in UNION out
      PROVE  Ready(p)
  <2>1. p[1] \in Paired(pairs) /\ p[2] \in Paired(pairs)
    BY DEF Paired
  <2>2. PICK q \in pairs : Ready(q) /\ (p[1] \in {q[1], q[2]} \/ p[2] \in {q[1], q[2]})
    BY <1>4, <2>1 DEF Outcome
  <2>3. p = q
    BY <1>1, <1>2, <2>2
  <2> QED
    BY <2>2, <2>3
<1>5. ASSUME NEW a, {a} \in out
      PROVE  a \in rusts \cup mfcs /\ a \notin Paired(pairs) /\ Aged(a)
  <2>1. \A p \in pairs : {a} # {p[1], p[2]}
    BY <1>1
  <2>2. PICK b \in (rusts \cup mfcs) \ Paired(pairs) : Aged(b) /\ {a} = {b}
    BY <1>5, <2>1 DEF Outcome
  <2>3. a = b
    BY <2>2
  <2> QED
    BY <2>2, <2>3
<1> QED
  BY <1>3, <1>4, <1>5

(* Between two ticks what is active is what the last one left and what came with  *)
(* this one; a loner is too old for newcomers.                                *)
LEMMA TooLate ==
  ASSUME TypeOK, LonersAreOld, lastTick < now, NEW c \in Client, NEW a \in Loners(c),
         NEW b \in Action, b.at > lastTick
  PROVE  ~Compatible(a, b) /\ ~Compatible(b, a)
<1>1. /\ a.at \in Nat /\ b.at \in Nat /\ lastTick \in Int /\ Window \in Nat
      /\ SettleFor(a.kind) \in Nat /\ lastTick - a.at > Window + SettleFor(a.kind)
  BY TimesAssumption DEF TypeOK, LonersAreOld, Loners, Action, SettleFor
<1> QED
  BY <1>1 DEF Compatible, Distance

(* What a tick reports alone was active, has no partner and has aged out.            *)
LEMMA NewLoner ==
  ASSUME IInv, IInv', NEW ok, NEW place, NEW pairs, TickStep(ok, place, pairs),
         NEW r \in reports', r \notin reports, NEW a, r.members = {a}
  PROVE  /\ a \in ActiveOf("rust", observed') \cup ActiveOf("mfc", observed')
         /\ a \notin Paired(pairs) /\ Aged(a)
<1> DEFINE rusts == ActiveOf("rust", observed')
           mfcs == ActiveOf("mfc", observed')
           out == Outcome(rusts \cup mfcs, pairs)
<1>1. /\ rusts \in SUBSET Action /\ mfcs \in SUBSET Action
      /\ \A x \in rusts, m \in mfcs : x # m
  BY DEF ActiveOf, IInv, TypeOK
<1>2. /\ pairs \in SUBSET Candidates(rusts, mfcs) /\ Correlation(rusts, mfcs, pairs)
      /\ reports' = reports \cup {[members |-> m, at |-> now] : m \in out}
  BY DEF TickStep
<1> HIDE DEF out
<1>3. {a} \in out
  BY <1>2
<1> HIDE DEF rusts, mfcs
<1>4. \A x : {x} \in out => x \in rusts \cup mfcs /\ x \notin Paired(pairs) /\ Aged(x)
  BY <1>1, <1>2, WhoLeaves DEF out
<1> QED
  BY <1>3, <1>4 DEF rusts, mfcs

(* What was reported alone has aged out.                                        *)
LEMMA LonersStayOld == Spec => []LonersAreOld
<1>1. Init => LonersAreOld
  BY DEF Init, LonersAreOld, Loners
<1>2. IInv /\ IInv' /\ LonersAreOld /\ [Next]_vars => LonersAreOld'
  <2> SUFFICES ASSUME IInv, IInv', LonersAreOld, [Next]_vars,
                      NEW a \in observed', NEW r \in reports', r.members = {a}
               PROVE  lastTick' - a.at > Window + SettleFor(a.kind)
    BY DEF LonersAreOld, Loners, SettleFor
  <2>1. a.at \in Nat /\ SettleFor(a.kind) \in Nat /\ Window \in Nat /\ a.client \in Client
    BY TimesAssumption DEF IInv, TypeOK, Action, SettleFor
  <2>2. lastTick \in Int /\ now \in Nat /\ lastTick <= now
    BY DEF IInv, TypeOK
  <2>3. CASE r \in reports
    <3>1. a \in Loners(a.client)
      BY <2>3 DEF Loners, IInv, ReportsAreProcessed
    <3>2. lastTick - a.at > Window + SettleFor(a.kind)
      BY <2>1, <3>1 DEF LonersAreOld
    <3>3. lastTick' = lastTick \/ lastTick' = now
      BY OnlyTickReports DEF Tick, Ticks
    <3> QED
      BY <2>1, <2>2, <3>2, <3>3
  <2>4. CASE r \notin reports
    <3>1. PICK down \in SUBSET Flaky : Tick(Surface \ down)
      BY <2>4, OnlyTickReports
    <3>2. PICK place, pairs : TickStep(Surface \ down, place, pairs)
      BY <3>1, TickHasStep
    <3>3. Aged(a)
      BY <2>4, <3>2, NewLoner
    <3> QED
      BY <3>1, <3>3 DEF Aged, Tick, Ticks
  <2> QED
    BY <2>3, <2>4
<1> QED
  BY <1>1, <1>2, Invariance, PTL DEF Spec

(* A newly observed action has this iteration's time.                            *)
LEMMA NewcomersAreNew ==
  ASSUME IInv, [Next]_vars, NEW a \in observed', a \notin observed
  PROVE  a.at = now
<1>1. ASSUME NEW key, NEW cycle, RecordSynchronized("download", key, cycle) PROVE a.at = now
  BY <1>1 DEF RecordSynchronized, Records, SyncAction
<1>2. ASSUME NEW ok, Tick(ok) PROVE a.at = now
  <2>1. PICK place, pairs : TickStep(ok, place, pairs)
    BY <1>2, TickHasStep
  <2> QED
    BY <2>1, NewActions DEF TickStep, IInv
<1> QED
  BY <1>1, <1>2 DEF Next, vars, tracker, Prime, Appear, Vanish, Iterate

----------------------------------------------------------------------------
(* A report names one action, or two of one deed.                                  *)
ReportsMatch ==
  \A r \in reports : \A a, b \in r.members : SameDeed(a, b) /\ (a # b => r.members = {a, b})

LEMMA ReportsStayMatched == Spec => []ReportsMatch
<1>1. Init => ReportsMatch
  BY DEF Init, ReportsMatch
<1>2. ReportsMatch /\ [Next]_vars => ReportsMatch'
  <2> SUFFICES ASSUME ReportsMatch, [Next]_vars PROVE ReportsMatch'
    OBVIOUS
  <2>1. CASE \A down \in SUBSET Flaky : ~Tick(Surface \ down)
    BY <2>1, OnlyTickReports DEF ReportsMatch
  <2>2. ASSUME NEW down \in SUBSET Flaky, Tick(Surface \ down) PROVE ReportsMatch'
    <3>1. PICK place, pairs : TickStep(Surface \ down, place, pairs)
      BY <2>2, TickHasStep
    <3> DEFINE actions == Ingested(Surface \ down, place)
               all == ActiveOf("rust", actions) \cup ActiveOf("mfc", actions)
               out == Outcome(all, pairs)
    <3>2. /\ reports' = reports \cup {[members |-> m, at |-> now] : m \in out}
          /\ \A p \in pairs : SameDeed(p[1], p[2])
      BY <3>1 DEF TickStep, Candidates, Compatible, SameDeed
    <3>3. ASSUME NEW m \in out, NEW a \in m, NEW b \in m
          PROVE  SameDeed(a, b) /\ (a # b => m = {a, b})
      <4> HIDE DEF all
      <4>1. CASE \E p \in pairs : m = {p[1], p[2]}
        BY <3>2, <3>3, <4>1 DEF SameDeed
      <4>2. CASE \E c : m = {c}
        BY <3>3, <4>2 DEF SameDeed
      <4> QED
        BY <4>1, <4>2 DEF Outcome
    <3> HIDE DEF out
    <3> QED
      BY <3>2, <3>3 DEF ReportsMatch
  <2> QED
    BY <2>1, <2>2
<1> QED
  BY <1>1, <1>2, PTL DEF Spec

(* Two active actions that could pair, and nobody else of their deed, are a pair.   *)
LEMMA TheyPair ==
  ASSUME NEW rusts, NEW mfcs, NEW pairs \in SUBSET Candidates(rusts, mfcs),
         Correlation(rusts, mfcs, pairs), NEW r \in rusts, NEW m \in mfcs, Compatible(r, m),
         \A c \in rusts : SameDeed(r, c) => c = r, \A c \in mfcs : SameDeed(r, c) => c = m
  PROVE  r \in Paired(pairs) /\ m \in Paired(pairs)
<1>1. \A p \in pairs : p[1] \in rusts /\ p[2] \in mfcs /\ Compatible(p[1], p[2])
  BY DEF Candidates
<1>2. \A p \in pairs : p[2] = m => p[1] = r
  BY <1>1 DEF Compatible, SameDeed
<1>3. m \in FreeFor(r, mfcs, pairs)
  BY <1>2 DEF FreeFor
<1>4. PICK n : Takes(r, n, mfcs, pairs)
  BY <1>3, TakesNearest
<1>5. n = m
  BY <1>4 DEF Takes, FreeFor, Compatible, SameDeed
<1>6. <<r, m>> \in pairs /\ <<r, m>>[1] = r /\ <<r, m>>[2] = m
  BY <1>4, <1>5 DEF Takes
<1> QED
  BY <1>6 DEF Paired

(* Nobody but these two shares their deed or bears an id of theirs.                 *)
AloneTogether(a, b) ==
  \A c \in observed : SameDeed(a, c) \/ c.id \in {a.id, b.id} => c \in {a, b}

(* Of two such actions a tick reports neither alone ...                              *)
LEMMA NeitherLeavesAlone ==
  ASSUME IInv, IInv', ProcessedAreReported, ReportsMatch, LonersAreOld, HalvesMeet, [Next]_vars,
         NEW a \in observed', NEW b \in observed', a.client # b.client, Compatible(a, b),
         AloneTogether(a, b)', NEW r \in reports', r.members = {a}
  PROVE  FALSE
<1>1. /\ a \in Action /\ b \in Action /\ a.at \in Nat /\ b.at \in Nat
      /\ Distance(a, b) <= Window /\ SameDeed(a, b)
      /\ {a.client, b.client} = {"rust", "mfc"}
      /\ SettleFor(a.kind) \in Nat /\ Window \in Nat
  BY TimesAssumption DEF IInv, TypeOK, Action, Compatible, SameDeed, SettleFor, Client
<1>2. now \in Nat /\ lastTick \in Int /\ lastTick <= now
  BY DEF IInv, TypeOK
<1>3. observed \subseteq observed'
  <2>1. ASSUME NEW ok, Tick(ok) PROVE observed \subseteq observed'
    BY <2>1, TickHasStep DEF TickStep, Ingested
  <2> QED
    BY <2>1 DEF Next, vars, tracker, Prime, Appear, Vanish, Iterate, RecordSynchronized, Records
<1>4. \A c \in observed : SameDeed(a, c) \/ c.id \in {a.id, b.id} => c \in {a, b}
  BY <1>3 DEF AloneTogether
<1>5. ASSUME a \in observed, now - a.at > Window + SettleFor(a.kind) PROVE b \in observed
  <2>1. b.at # now
    BY <1>1, <1>2, <1>5 DEF Distance
  <2> QED
    BY <2>1, NewcomersAreNew
<1>6. CASE r \in reports
  <2>1. a \in observed
    BY <1>6 DEF IInv, ReportsAreProcessed
  <2>2. a \in Loners(a.client) /\ a.client \in Client
    BY <1>1, <1>6, <2>1 DEF Loners, Client
  <2>3. now - a.at > Window + SettleFor(a.kind)
    BY <1>1, <1>2, <2>2 DEF LonersAreOld
  <2>4. b \in observed
    BY <1>5, <2>1, <2>3
  <2> QED
    BY <1>4, <1>6, <2>1, <2>4 DEF HalvesMeet
<1>7. CASE r \notin reports
  <2>1. PICK down \in SUBSET Flaky : Tick(Surface \ down)
    BY <1>7, OnlyTickReports
  <2>2. PICK place, pairs : TickStep(Surface \ down, place, pairs)
    BY <2>1, TickHasStep
  <2> DEFINE rusts == ActiveOf("rust", observed')
             mfcs == ActiveOf("mfc", observed')
  <2>3. a \in rusts \cup mfcs /\ a \notin Paired(pairs) /\ Aged(a)
    BY <1>7, <2>2, NewLoner
  <2>4. a.id \notin processed /\ now - a.at > Window + SettleFor(a.kind)
    BY <2>3 DEF ActiveOf, Aged
  <2>5. a \in observed
    BY <1>1, <1>2, <2>4, NewcomersAreNew
  <2>6. b \in observed
    BY <1>5, <2>4, <2>5
  <2>7. b.id \notin processed
    <3> SUFFICES ASSUME b.id \in processed PROVE FALSE
      OBVIOUS
    <3>1. PICK c \in observed : Reported(c) /\ c.id = b.id
      BY DEF ProcessedAreReported
    <3>2. PICK q \in reports : c \in q.members
      BY <3>1 DEF Reported
    <3>3. c = b
      BY <1>4, <2>4, <3>1, <3>2 DEF IInv, ReportsAreProcessed
    <3>4. a \notin q.members
      BY <2>4 DEF IInv, ReportsAreProcessed
    <3>5. \A x \in q.members : x = b
      BY <1>1, <1>4, <3>2, <3>3, <3>4 DEF ReportsMatch, SameDeed, IInv, ReportsAreProcessed
    <3>6. q.members = {b}
      BY <3>2, <3>3, <3>5
    <3> QED
      BY <1>4, <2>5, <2>6, <3>6 DEF HalvesMeet
  <2>8. b \in rusts \cup mfcs
    BY <1>1, <1>3, <2>6, <2>7 DEF ActiveOf
  <2>9. /\ pairs \in SUBSET Candidates(rusts, mfcs) /\ Correlation(rusts, mfcs, pairs)
    BY <2>2 DEF TickStep
  <2>10. /\ \A c \in rusts : c.client = "rust" /\ (SameDeed(a, c) => c \in {a, b})
         /\ \A c \in mfcs : c.client = "mfc" /\ (SameDeed(a, c) => c \in {a, b})
    BY DEF AloneTogether, ActiveOf
  <2> HIDE DEF rusts, mfcs
  <2>11. CASE a \in rusts
    <3>1. b \in mfcs /\ \A c \in rusts : SameDeed(a, c) => c = a
      BY <1>1, <2>8, <2>10, <2>11
    <3>2. \A c \in mfcs : SameDeed(a, c) => c = b
      BY <2>10, <2>11
    <3> QED
      BY <2>3, <2>9, <2>11, <3>1, <3>2, TheyPair
  <2>12. CASE a \in mfcs
    <3>1. b \in rusts /\ \A c \in mfcs : SameDeed(b, c) => c = a
      BY <1>1, <2>8, <2>10, <2>12 DEF SameDeed
    <3>2. \A c \in rusts : SameDeed(b, c) => c = b
      BY <1>1, <2>10, <2>12 DEF SameDeed
    <3>3. Compatible(b, a)
      BY <1>1 DEF Compatible, Distance, SameDeed
    <3> QED
      BY <2>3, <2>9, <2>12, <3>1, <3>2, <3>3, TheyPair
  <2> QED
    BY <2>3, <2>11, <2>12
<1> QED
  BY <1>6, <1>7

(* ... so the two halves of a download, which both clients list under its hash, are     *)
(* never given up one by one if they came within the window of each other: the first    *)
(* of them waits in ActionTracker until no counterpart can arrive in time.            *)
THEOREM HalvesAreKept == Spec => []HalvesMeet
<1>1. Init => HalvesMeet
  BY DEF Init, HalvesMeet
<1>2. IInv /\ IInv' /\ ProcessedAreReported /\ ReportsMatch /\ LonersAreOld /\ HalvesMeet
        /\ [Next]_vars => HalvesMeet'
  <2> SUFFICES ASSUME IInv, IInv', ProcessedAreReported, ReportsMatch, LonersAreOld, HalvesMeet,
                      [Next]_vars, NEW a \in observed', NEW b \in observed', a.client # b.client,
                      Compatible(a, b), AloneTogether(a, b)',
                      NEW r \in reports', r.members = {a} \/ r.members = {b}
               PROVE  FALSE
    BY DEF HalvesMeet, AloneTogether, Compatible, Distance, SameDeed
  <2>1. Compatible(b, a) /\ AloneTogether(b, a)'
    <3>1. a.at \in Nat /\ b.at \in Nat
      BY DEF IInv, TypeOK, Action
    <3>2. Compatible(b, a)
      BY <3>1 DEF Compatible, Distance
    <3>3. AloneTogether(b, a)'
      BY DEF AloneTogether, SameDeed, Compatible
    <3> QED
      BY <3>2, <3>3
  <2> QED
    BY <2>1, NeitherLeavesAlone
<1> QED
  BY <1>1, <1>2, Invariance, EveryIdIsReported, ReportsStayMatched, LonersStayOld, PTL DEF Spec

----------------------------------------------------------------------------
(* The actions of one kind and key: no other action may pair with them.              *)
Deeds(kind, key) == {a \in Action : a.kind = kind /\ a.key = key}
Class(D) == \A a, b \in Action : Compatible(a, b) => (a \in D <=> b \in D)

(* None of them was hidden by a namesake.                                          *)
Quiet(D) == \A a \in observed \cap D : ~Hidden(a)

(* What the last tick left active of them, and which were reported alone.             *)
LeftActive(client, D) == {a \in ActiveOf(client, observed) \cap D : a.at <= lastTick}
LonersOf(client, D) == Loners(client) \cap D

(* A lone rust action has no mfc action left to pair with; and a rust action that     *)
(* could have paired with a lone mfc action has a partner that no older rust action    *)
(* will take away.                                                                *)
RustLonersLeft(D) ==
  \A a \in LonersOf("rust", D), b \in ActiveOf("mfc", observed) \cap D : ~Compatible(a, b)
MfcLonersLeft(D) ==
  \E pairs \in SUBSET Candidates(LeftActive("rust", D), LeftActive("mfc", D)) :
    /\ Correlation(LeftActive("rust", D), LeftActive("mfc", D), pairs)
    /\ \A b \in LonersOf("mfc", D), a \in LeftActive("rust", D) :
         Compatible(a, b) => \E p \in pairs : p[1] = a
LonersApart(D) == \A a \in LonersOf("rust", D), b \in LonersOf("mfc", D) : ~Compatible(a, b)
Lonely(D) == RustLonersLeft(D) /\ MfcLonersLeft(D) /\ LonersApart(D)

LEMMA DeedsAreClass ==
  ASSUME NEW kind, NEW key
  PROVE  Deeds(kind, key) \in SUBSET Action /\ Class(Deeds(kind, key))
BY DEF Deeds, Class, Compatible

(* Who is hidden stays hidden.                                                     *)
LEMMA QuietBefore ==
  ASSUME IInv, IInv', [Next]_vars, NEW D \in SUBSET Action, Quiet(D)'
  PROVE  Quiet(D)
<1> SUFFICES ASSUME NEW a \in observed \cap D, a.id \in processed
             PROVE  \E r \in reports : a \in r.members
  BY DEF Quiet, Hidden, Reported
<1>1. CASE \A down \in SUBSET Flaky : ~Tick(Surface \ down)
  <2>1. reports' = reports /\ processed' = processed /\ a \in observed'
    BY <1>1, OnlyTickReports
       DEF Next, vars, tracker, Prime, Appear, Vanish, Iterate, RecordSynchronized, Records
  <2> QED
    BY <2>1 DEF Quiet, Hidden, Reported
<1>2. ASSUME NEW down \in SUBSET Flaky, Tick(Surface \ down)
      PROVE  \E r \in reports : a \in r.members
  <2>1. PICK place, pairs : TickStep(Surface \ down, place, pairs)
    BY <1>2, TickHasStep
  <2> DEFINE actions == Ingested(Surface \ down, place)
             out == Outcome(ActiveOf("rust", actions) \cup ActiveOf("mfc", actions), pairs)
  <2>2. /\ \A m \in out : \A b \in m : b.id \notin processed
        /\ processed' = processed \cup {b.id : b \in UNION out}
        /\ reports' = reports \cup {[members |-> m, at |-> now] : m \in out}
    BY <2>1, HandedOut
  <2>3. a \in observed'
    BY <2>1 DEF TickStep, Ingested
  <2> HIDE DEF out
  <2>4. PICK r \in reports' : a \in r.members
    BY <2>2, <2>3 DEF Quiet, Hidden, Reported
  <2> QED
    BY <2>2, <2>4
<1> QED
  BY <1>1, <1>2

(* A tick keeps every rust action that could have paired with a loner in a pair,  *)
(* and leaves nobody alone while a partner for it is left.                     *)
LEMMA TickLoners ==
  ASSUME IInv, IInv', Placed, Placed', LonersAreOld, NEW D \in SUBSET Action, Class(D),
         Lonely(D), Quiet(D)', NEW ok, NEW place, NEW matching,
         TickStep(ok, place, matching), lastTick < now, lastTick' = now, now' = now,
         \A a \in observed' \ observed : a.at = now
  PROVE  Lonely(D)'
<1> DEFINE allRusts == ActiveOf("rust", observed')
           allMfcs == ActiveOf("mfc", observed')
           out == Outcome(allRusts \cup allMfcs, matching)
           gone == UNION out
           rusts == allRusts \cap D
           mfcs == allMfcs \cap D
           pairs == {p \in matching : p[1] \in D}
<1>1. /\ observed' \subseteq Action /\ observed \subseteq observed' /\ observed \subseteq Action
      /\ now \in Nat /\ lastTick \in Int /\ Window \in Nat
  <2>1. observed \subseteq observed'
    BY DEF TickStep, Ingested
  <2> QED
    BY <2>1, TimesAssumption DEF IInv, TypeOK
<1>2. /\ rusts \in SUBSET Action /\ mfcs \in SUBSET Action
      /\ allRusts \in SUBSET Action /\ allMfcs \in SUBSET Action
      /\ \A r \in rusts : r \in observed' /\ r \in D /\ r.client = "rust" /\ r.id \notin processed
      /\ \A m \in mfcs : m \in observed' /\ m \in D /\ m.client = "mfc" /\ m.id \notin processed
      /\ \A r \in allRusts, m \in allMfcs : r # m
  BY <1>1 DEF ActiveOf
<1>a. /\ matching \in SUBSET Candidates(allRusts, allMfcs)
      /\ Correlation(allRusts, allMfcs, matching)
      /\ processed' = processed \cup {a.id : a \in gone}
      /\ reports' = reports \cup {[members |-> m, at |-> now] : m \in out}
  BY DEF TickStep
<1>b. \A p \in matching : /\ p[1] \in allRusts /\ p[2] \in allMfcs
                          /\ p[1] \in D <=> p[2] \in D
  <2> HIDE DEF allRusts, allMfcs
  <2>1. \A p \in matching : p[1] \in allRusts /\ p[2] \in allMfcs /\ Compatible(p[1], p[2])
    BY <1>a, PartnerWasFree
  <2> QED
    BY <1>2, <2>1 DEF Class
(* The correlation of all actions is one of these, too.                         *)
<1>3. pairs \in SUBSET Candidates(rusts, mfcs) /\ Correlation(rusts, mfcs, pairs)
  <2>1. /\ pairs \in SUBSET matching /\ rusts \in SUBSET allRusts /\ mfcs \in SUBSET allMfcs
        /\ StayTogether(matching, pairs, rusts, mfcs)
    BY <1>b DEF StayTogether
  <2> HIDE DEF pairs, rusts, mfcs, allRusts, allMfcs
  <2>2. pairs \subseteq Candidates(rusts, mfcs) /\ Correlation(rusts, mfcs, pairs)
    BY <1>a, <2>1, PairsLeaveTogether
  <2> QED
    BY <2>2
<1>4. gone \subseteq allRusts \cup allMfcs
  <2> HIDE DEF allRusts, allMfcs
  <2> QED
    BY <1>a, OutcomeIsActive
<1>c. \A a \in observed' \cap D : a.id \in processed' <=> a.id \in processed \/ a \in gone
  <2> SUFFICES ASSUME NEW a \in observed' \cap D, a.id \in processed', a.id \notin processed
               PROVE  a \in gone
    BY <1>a
  <2>1. PICK r \in reports' : a \in r.members
    BY DEF Quiet, Hidden, Reported
  <2>2. r \notin reports
    BY <2>1 DEF IInv, ReportsAreProcessed
  <2> HIDE DEF out
  <2> QED
    BY <1>a, <2>1, <2>2
<1> HIDE DEF gone
<1>5. /\ (ActiveOf("rust", observed) \cap D)' = rusts \ gone
      /\ (ActiveOf("mfc", observed) \cap D)' = mfcs \ gone
  BY <1>a, <1>c DEF ActiveOf
<1>6. LeftActive("rust", D)' = rusts \ gone /\ LeftActive("mfc", D)' = mfcs \ gone
  <2>1. \A a \in observed' : a.at <= lastTick'
    BY DEF Placed, OldActions
  <2>2. ActiveOf("rust", observed)' \subseteq observed' /\ ActiveOf("mfc", observed)' \subseteq observed'
    BY DEF ActiveOf
  <2> QED
    BY <1>5, <2>1, <2>2 DEF LeftActive
<1>7. /\ \A p \in pairs : (p[1] \in gone <=> Ready(p)) /\ (p[2] \in gone <=> Ready(p))
      /\ \A a \in D : {a} \in out => a \in rusts \cup mfcs /\ a \notin Paired(pairs) /\ Aged(a)
  <2> HIDE DEF allRusts, allMfcs
  <2>1. /\ \A p \in matching : (p[1] \in gone <=> Ready(p)) /\ (p[2] \in gone <=> Ready(p))
        /\ \A a : {a} \in out => a \in allRusts \cup allMfcs /\ a \notin Paired(matching) /\ Aged(a)
    BY <1>2, <1>a, WhoLeaves DEF gone
  <2>2. Paired(pairs) \subseteq Paired(matching)
    BY DEF Paired
  <2> HIDE DEF out
  <2> QED
    BY <2>1, <2>2
<1> HIDE DEF rusts, mfcs, out, pairs
(* Who is reported alone was so before, or has aged out unpaired in this tick. *)
<1>8. ASSUME NEW c \in Client, NEW a \in LonersOf(c, D)'
      PROVE  \/ a \in LonersOf(c, D)
             \/ /\ a \in rusts \cup mfcs /\ a.client = c
                /\ a \notin Paired(pairs) /\ Aged(a)
  <2>1. PICK r \in reports' : r.members = {a}
    BY <1>8 DEF LonersOf, Loners
  <2>2. a \in observed' /\ a.client = c /\ a \in D
    BY <1>8 DEF LonersOf, Loners
  <2>3. CASE r \in reports
    BY <2>1, <2>2, <2>3 DEF LonersOf, Loners, IInv, ReportsAreProcessed
  <2>4. CASE r \notin reports
    BY <1>a, <1>7, <2>1, <2>2, <2>4
  <2> QED
    BY <2>3, <2>4
<1>9. \A c \in Client : \A a \in LonersOf(c, D) : \A b \in observed' :
        b.at > lastTick => ~Compatible(a, b) /\ ~Compatible(b, a)
  BY <1>1, TooLate DEF IInv, LonersOf
<1>10. ASSUME NEW a \in observed' PROVE a \in observed \/ a.at > lastTick
  BY <1>1, <1>10
(* Free for a rust action without a partner is nobody.                          *)
<1>11. ASSUME NEW r \in rusts, NEW m \in mfcs, Compatible(r, m),
              \A p \in pairs : p[2] # m \/ p[1] = r \/ Before(r, p[1])
       PROVE  r \in Paired(pairs)
  <2>1. m \in FreeFor(r, mfcs, pairs)
    BY <1>11 DEF FreeFor
  <2>2. PICK n : Takes(r, n, mfcs, pairs)
    BY <1>3, <2>1, TakesNearest
  <2>3. <<r, n>> \in pairs /\ <<r, n>>[1] = r
    BY <2>2 DEF Takes
  <2> QED
    BY <2>3 DEF Paired
(* A rust action that could have paired with a lone mfc action has a partner.    *)
<1>12. ASSUME NEW r \in rusts, NEW b \in LonersOf("mfc", D)', Compatible(r, b)
       PROVE  r \in Paired(pairs)
  <2>1. CASE b \in LonersOf("mfc", D)
    <3>1. r \in observed /\ r.at <= lastTick
      <4>1. ~(r.at > lastTick) /\ r \in observed'
        BY <1>2, <1>9, <1>12, <2>1 DEF Client
      <4> QED
        BY <1>1, <1>10, <4>1 DEF Action
    <3>2. r \in LeftActive("rust", D)
      BY <1>2, <3>1 DEF LeftActive, ActiveOf
    <3>3. PICK old \in SUBSET Candidates(LeftActive("rust", D), LeftActive("mfc", D)) :
            Correlation(LeftActive("rust", D), LeftActive("mfc", D), old) /\ \E p \in old : p[1] = r
      BY <1>12, <2>1, <3>2 DEF Lonely, MfcLonersLeft
    <3>4. PICK p \in old : p[1] = r
      BY <3>3
    <3>5. Correlation(LeftActive("rust", D), LeftActive("mfc", D), old)
      BY <3>3
    <3>6. p[2] \in FreeFor(r, LeftActive("mfc", D), old)
      BY <3>4, <3>5, PartnerWasFree
    <3>7. LeftActive("rust", D) \in SUBSET rusts /\ LeftActive("mfc", D) \in SUBSET mfcs
      BY <1>1 DEF LeftActive, ActiveOf, rusts, mfcs
    <3>8. \A x \in LeftActive("rust", D), q \in rusts \ LeftActive("rust", D) : x.at < q.at
      <4> SUFFICES ASSUME NEW x \in LeftActive("rust", D), NEW q \in rusts \ LeftActive("rust", D)
                   PROVE  x.at < q.at
        OBVIOUS
      <4>1. x.at <= lastTick /\ x.at \in Nat /\ q.at \in Nat
        BY <1>2, <3>7 DEF LeftActive, Action
      <4>2. q.at > lastTick
        <5>1. CASE q \in observed
          <6>1. q \in ActiveOf("rust", observed) \cap D
            BY <1>2, <5>1 DEF ActiveOf
          <6> QED
            BY <1>1, <4>1, <6>1 DEF LeftActive
        <5>2. CASE q \notin observed
          BY <1>2, <1>10, <5>2
        <5> QED
          BY <5>1, <5>2
      <4> QED
        BY <1>1, <4>1, <4>2
    <3>9. \A x, q \in rusts : (x.kind = q.kind /\ x.key = q.key /\ x # q)
            => x.at # q.at \/ x.pos # q.pos
      BY <1>2 DEF Placed, NoTies
    <3>10. FreeFor(r, LeftActive("mfc", D), old) \subseteq FreeFor(r, mfcs, pairs)
      BY <1>2, <1>3, <3>2, <3>5, <3>7, <3>8, <3>9, NewcomersTakeNothing
    <3>11. PICK n : Takes(r, n, mfcs, pairs)
      BY <1>3, <3>6, <3>10, TakesNearest
    <3>12. <<r, n>> \in pairs /\ <<r, n>>[1] = r
      BY <3>11 DEF Takes
    <3> QED
      BY <3>12 DEF Paired
  <2>2. CASE b \in rusts \cup mfcs /\ b.client = "mfc" /\ b \notin Paired(pairs)
    <3>1. b \in mfcs
      BY <1>2, <2>2
    <3>2. \A p \in pairs : p[2] # b
      BY <2>2 DEF Paired
    <3> QED
      BY <1>11, <1>12, <3>1, <3>2
  <2> QED
    BY <1>8, <2>1, <2>2 DEF Client
(* No mfc action is left for a rust action that is alone.                        *)
<1>13. ASSUME NEW a \in LonersOf("rust", D), NEW b \in mfcs PROVE ~Compatible(a, b)
  <2>1. CASE b \in observed
    <3>1. b \in ActiveOf("mfc", observed) \cap D
      BY <1>2, <2>1 DEF ActiveOf
    <3> QED
      BY <3>1 DEF Lonely, RustLonersLeft
  <2>2. CASE b \notin observed
    BY <1>2, <1>9, <1>10, <2>2 DEF Client
  <2> QED
    BY <2>1, <2>2
<1>14. ASSUME NEW a \in rusts, a \notin Paired(pairs), Aged(a),
              NEW b \in mfcs, Compatible(a, b)
       PROVE  b \in gone
  <2>1. PICK p \in pairs : p[2] = b /\ p[1] # a /\ ~Before(a, p[1])
    BY <1>11, <1>14
  <2>2. p[1] \in rusts /\ Compatible(p[1], b)
    BY <1>3, <2>1, PartnerWasFree
  <2>3. /\ a.at \in Nat /\ b.at \in Nat /\ p[1].at \in Nat
        /\ p[1].at <= a.at /\ p[1].kind = a.kind
    BY <1>2, <1>14, <2>1, <2>2 DEF Action, Before, Compatible
  <2>4. now - a.at > Window + SettleFor(a.kind) /\ SettleFor(a.kind) \in Nat
    BY <1>14, TimesAssumption DEF Aged, SettleFor
  <2>5. b.at <= a.at + Window
    BY <1>1, <1>14, <2>3 DEF Compatible, Distance
  <2>6. LaterAt(p) <= a.at + Window /\ LaterAt(p) \in Nat
    BY <1>1, <2>1, <2>3, <2>5 DEF LaterAt
  <2>7. Ready(p)
    BY <1>1, <2>3, <2>4, <2>6 DEF Ready
  <2> QED
    BY <1>7, <2>1, <2>7
<1>16. RustLonersLeft(D)'
  <2> SUFFICES ASSUME NEW a \in LonersOf("rust", D)', NEW b \in mfcs \ gone, Compatible(a, b)
               PROVE  FALSE
    BY <1>5 DEF RustLonersLeft
  <2>1. CASE a \in LonersOf("rust", D)
    BY <1>13, <2>1
  <2>2. CASE a \in rusts \cup mfcs /\ a.client = "rust" /\ a \notin Paired(pairs) /\ Aged(a)
    BY <1>2, <1>14, <2>2
  <2> QED
    BY <1>8, <2>1, <2>2 DEF Client
<1>17. LonersApart(D)'
  <2> SUFFICES ASSUME NEW a \in LonersOf("rust", D)', NEW b \in LonersOf("mfc", D)', Compatible(a, b)
               PROVE  FALSE
    BY DEF LonersApart
  <2>1. CASE a \in rusts /\ a \notin Paired(pairs)
    BY <1>12, <2>1
  <2>2. CASE a \in LonersOf("rust", D) /\ b \in LonersOf("mfc", D)
    BY <2>2 DEF Lonely, LonersApart
  <2>3. CASE a \in LonersOf("rust", D) /\ b \in mfcs
    BY <1>13, <2>3
  <2>4. a \in LonersOf("rust", D) \/ (a \in rusts /\ a \notin Paired(pairs))
    BY <1>2, <1>8 DEF Client
  <2>5. b \in LonersOf("mfc", D) \/ b \in mfcs
    BY <1>2, <1>8 DEF Client
  <2> QED
    BY <2>1, <2>2, <2>3, <2>4, <2>5
<1>18. MfcLonersLeft(D)'
  <2> DEFINE left == {p \in pairs : ~Ready(p)}
             rustsLeft == rusts \ gone
             mfcsLeft == mfcs \ gone
  <2>1. /\ left \in SUBSET pairs /\ rustsLeft \in SUBSET rusts /\ mfcsLeft \in SUBSET mfcs
        /\ StayTogether(pairs, left, rustsLeft, mfcsLeft)
    <3>1. \A p \in pairs : p[1] \in rusts /\ p[2] \in mfcs
      BY <1>3, PartnerWasFree
    <3> QED
      BY <1>7, <3>1 DEF StayTogether
  <2> HIDE DEF left, rustsLeft, mfcsLeft
  <2>2. left \subseteq Candidates(rustsLeft, mfcsLeft) /\ Correlation(rustsLeft, mfcsLeft, left)
    BY <1>3, <2>1, PairsLeaveTogether
  <2>3. rustsLeft = LeftActive("rust", D)' /\ mfcsLeft = LeftActive("mfc", D)'
    BY <1>6 DEF rustsLeft, mfcsLeft
  <2>4. ASSUME NEW b \in LonersOf("mfc", D)', NEW a \in rustsLeft, Compatible(a, b)
        PROVE  \E p \in left : p[1] = a
    <3>1. a \in rusts /\ a \in Paired(pairs)
      BY <1>12, <2>1, <2>4
    <3>2. PICK p \in pairs : p[1] = a \/ p[2] = a
      BY <3>1 DEF Paired
    <3>3. p[2] \in mfcs
      BY <1>3, PartnerWasFree
    <3>4. p[1] = a
      BY <1>2, <3>1, <3>2, <3>3
    <3> QED
      BY <2>1, <2>4, <3>4 DEF StayTogether
  <2> QED
    BY <2>2, <2>3, <2>4 DEF MfcLonersLeft, Candidates, Correlation, FreeFor
<1> QED
  BY <1>16, <1>17, <1>18 DEF Lonely

(* While nobody leaves or is given up, the partners stay.                        *)
LEMMA SamePartners ==
  ASSUME NEW D, MfcLonersLeft(D), LonersOf("mfc", D)' = LonersOf("mfc", D),
         LeftActive("rust", D)' = LeftActive("rust", D), LeftActive("mfc", D)' = LeftActive("mfc", D)
  PROVE  MfcLonersLeft(D)'
<1> DEFINE rusts == LeftActive("rust", D)
           mfcs == LeftActive("mfc", D)
           loners == LonersOf("mfc", D)
<1>1. PICK pairs \in SUBSET Candidates(rusts, mfcs) :
        /\ Correlation(rusts, mfcs, pairs)
        /\ \A b \in loners, a \in rusts : Compatible(a, b) => \E p \in pairs : p[1] = a
  BY DEF MfcLonersLeft
<1>2. LeftActive("rust", D)' = rusts /\ LeftActive("mfc", D)' = mfcs /\ LonersOf("mfc", D)' = loners
  OBVIOUS
<1> HIDE DEF rusts, mfcs, loners
<1> QED
  BY <1>1, <1>2 DEF MfcLonersLeft, Candidates, Correlation, FreeFor

(* A synchronized download gets this iteration's time, and a place of its own, ...     *)
LEMMA RecordPlaces ==
  ASSUME IInv, Placed, NEW key \in Keys, NEW cycle \in 1..MaxCycle,
         RecordSynchronized("download", key, cycle), IInv'
  PROVE  Placed'
<1>1. /\ observed' = observed \cup {SyncAction(c, "download", key, cycle) : c \in Client}
      /\ \A a \in observed, c \in Client : a.id # <<c, cycle>>
      /\ lastTick < now
      /\ UNCHANGED <<now, lastTick, processed, reports>>
  BY DEF RecordSynchronized, Records
<1>2. \A a \in observed' \ observed : \E c \in Client :
        a.id = <<c, cycle>> /\ a.client = c /\ a.at = now /\ a.pos = cycle
  BY <1>1 DEF SyncAction
<1>3. /\ observed' \subseteq Action /\ observed \subseteq Action
      /\ now \in Nat /\ lastTick \in Int
  BY DEF IInv, TypeOK
<1>4. OldActions' /\ SyncPlaced'
  BY <1>1, <1>2, <1>3 DEF Placed, OldActions, SyncPlaced
<1>5. ASSUME NEW a \in observed, NEW b \in observed' \ observed, a.client = b.client, a.at = b.at
      PROVE  a.pos # b.pos
  <2>1. b.at = now /\ b.pos = cycle /\ b.client \in Client
    BY <1>2
  <2>2. a.id \in SyncIds
    <3>1. a.id \in RowIds \/ a.id \in SyncIds
      BY <1>3 DEF Action, Ids
    <3>2. a.id \in RowIds => a.at <= lastTick
      BY DEF IInv, RowActionsAreSeen
    <3> QED
      BY <1>1, <1>3, <1>5, <2>1, <3>1, <3>2
  <2>3. a.id = <<a.client, a.pos>>
    BY <2>2 DEF Placed, SyncPlaced
  <2> QED
    BY <1>1, <1>5, <2>1, <2>3
<1>6. NoTies'
  <2> SUFFICES ASSUME NEW a \in observed', NEW b \in observed',
                      a.client = b.client, a.kind = b.kind, a.key = b.key, a # b, a.at = b.at
               PROVE  a.pos # b.pos
    BY DEF NoTies
  <2>1. CASE a \in observed /\ b \in observed
    BY <2>1 DEF Placed, NoTies
  <2>2. CASE a \in observed /\ b \notin observed
    BY <1>5, <2>2
  <2>3. CASE a \notin observed /\ b \in observed
    BY <1>5, <2>3
  <2>4. CASE a \notin observed /\ b \notin observed
    BY <1>1, <2>4 DEF SyncAction
  <2> QED
    BY <2>1, <2>2, <2>3, <2>4
<1> QED
  BY <1>4, <1>6 DEF Placed

LEMMA StaysPlaced == Spec => []Placed
<1>1. Init => Placed
  BY DEF Init, Placed, OldActions, SyncPlaced, NoTies
<1>2. IInv /\ IInv' /\ Placed /\ [Next]_vars => Placed'
  <2> SUFFICES ASSUME IInv, IInv', Placed, [Next]_vars PROVE Placed'
    OBVIOUS
  <2>1. ASSUME UNCHANGED observed, now' \in Nat, now <= now' PROVE Placed'
    <3>1. \A a \in observed : a.at \in Nat
      BY DEF IInv, TypeOK, Action
    <3> QED
      BY <2>1, <3>1 DEF IInv, TypeOK, Placed, OldActions, SyncPlaced, NoTies
  <2>2. ASSUME NEW key \in Keys, NEW cycle \in 1..MaxCycle,
               RecordSynchronized("download", key, cycle)
        PROVE  Placed'
    BY <2>2, RecordPlaces
  <2>3. ASSUME NEW down \in SUBSET Flaky, Tick(Surface \ down) PROVE Placed'
    <3>1. PICK place, pairs : TickStep(Surface \ down, place, pairs)
      BY <2>3, TickHasStep
    <3>2. lastTick < now /\ now' = now
      BY <2>3 DEF Tick
    <3> QED
      BY <3>1, <3>2, TickPlaces
  <2>4. ASSUME NEW t \in 1..MaxTime, Iterate(t) PROVE Placed'
    <3>1. now' \in Nat /\ now <= now' /\ observed' = observed
      BY <2>4, TimesAssumption DEF Iterate, tracker, IInv, TypeOK
    <3> QED
      BY <2>1, <3>1
  <2>5. CASE \/ \E down \in SUBSET Flaky : Prime(Surface \ down)
             \/ \E row \in Rows : Appear(row)
             \/ \E row \in Removable : Vanish(row)
             \/ UNCHANGED vars
    <3>1. UNCHANGED <<now, observed>>
      BY <2>5 DEF Prime, Appear, Vanish, vars, tracker
    <3>2. now \in Nat
      BY DEF IInv, TypeOK
    <3>3. now' \in Nat /\ now <= now'
      BY <3>1, <3>2
    <3> QED
      BY <2>1, <3>1, <3>3
  <2> QED
    BY <2>2, <2>3, <2>4, <2>5 DEF Next
<1> QED
  BY <1>1, <1>2, Invariance, PTL DEF Spec

(* ... later than any loner's time, so it belongs to none of them.                    *)
LEMMA RecordLoners ==
  ASSUME IInv, LonersAreOld, NEW D \in SUBSET Action, Lonely(D), NEW key \in Keys,
         NEW cycle \in 1..MaxCycle, RecordSynchronized("download", key, cycle), IInv'
  PROVE  Lonely(D)'
<1>1. /\ observed' = observed \cup {SyncAction(c, "download", key, cycle) : c \in Client}
      /\ lastTick < now
      /\ UNCHANGED <<now, lastTick, processed, reports>>
  BY DEF RecordSynchronized, Records
<1>2. \A a \in observed' \ observed : a.at = now
  BY <1>1 DEF SyncAction
<1>3. /\ observed' \subseteq Action /\ observed \subseteq Action
      /\ now \in Nat /\ lastTick \in Int
  BY DEF IInv, TypeOK
<1>4. \A c \in Client : LonersOf(c, D)' = LonersOf(c, D)
  BY <1>1 DEF LonersOf, Loners, IInv, ReportsAreProcessed
<1>5. LeftActive("rust", D)' = LeftActive("rust", D) /\ LeftActive("mfc", D)' = LeftActive("mfc", D)
  <2>1. \A a \in observed' \ observed : ~(a.at <= lastTick)
    BY <1>1, <1>2, <1>3
  <2>2. observed \subseteq observed'
    BY <1>1
  <2> QED
    BY <1>1, <2>1, <2>2 DEF LeftActive, ActiveOf
<1>6. RustLonersLeft(D)'
  <2> SUFFICES ASSUME NEW a \in LonersOf("rust", D), NEW b \in ActiveOf("mfc", observed') \cap D
               PROVE  ~Compatible(a, b)
    BY <1>1, <1>4 DEF RustLonersLeft, Client, ActiveOf
  <2>1. CASE b \in observed
    <3>1. b \in ActiveOf("mfc", observed) \cap D
      BY <2>1 DEF ActiveOf
    <3> QED
      BY <3>1 DEF Lonely, RustLonersLeft
  <2>2. CASE b \notin observed
    <3>1. b \in Action /\ b.at > lastTick
      BY <1>1, <1>2, <1>3, <2>2 DEF ActiveOf
    <3> QED
      BY <1>1, <3>1, TooLate DEF IInv, LonersOf, Client
  <2> QED
    BY <2>1, <2>2
<1>7. LonersApart(D)'
  BY <1>4 DEF Lonely, LonersApart, Client
<1>8. MfcLonersLeft(D)'
  <2>1. LonersOf("mfc", D)' = LonersOf("mfc", D)
    BY <1>4 DEF Client
  <2> QED
    BY <1>5, <2>1, SamePartners DEF Lonely
<1> QED
  BY <1>6, <1>7, <1>8 DEF Lonely

LEMMA LonersStep ==
  ASSUME IInv, IInv', Placed, Placed', LonersAreOld, NEW D \in SUBSET Action, Class(D),
         Quiet(D)', Lonely(D), [Next]_vars
  PROVE  Lonely(D)'
<1>1. ASSUME UNCHANGED <<observed, processed, reports, lastTick>> PROVE Lonely(D)'
  <2>1. /\ LonersOf("rust", D)' = LonersOf("rust", D) /\ LonersOf("mfc", D)' = LonersOf("mfc", D)
        /\ LeftActive("rust", D)' = LeftActive("rust", D)
        /\ LeftActive("mfc", D)' = LeftActive("mfc", D)
        /\ ActiveOf("mfc", observed)' = ActiveOf("mfc", observed)
    BY <1>1 DEF LonersOf, Loners, LeftActive, ActiveOf
  <2>2. RustLonersLeft(D)' /\ LonersApart(D)'
    BY <2>1 DEF Lonely, RustLonersLeft, LonersApart
  <2>3. MfcLonersLeft(D)'
    BY <2>1, SamePartners DEF Lonely
  <2> QED
    BY <2>2, <2>3 DEF Lonely
<1>2. ASSUME NEW key \in Keys, NEW cycle \in 1..MaxCycle,
             RecordSynchronized("download", key, cycle)
      PROVE  Lonely(D)'
  BY <1>2, RecordLoners
<1>3. ASSUME NEW down \in SUBSET Flaky, Tick(Surface \ down)
      PROVE  Lonely(D)'
  <2>1. PICK place, pairs : TickStep(Surface \ down, place, pairs)
    BY <1>3, TickHasStep
  <2>2. lastTick < now /\ lastTick' = now /\ now' = now
    BY <1>3 DEF Tick, Ticks
  <2>3. \A a \in observed' \ observed : a.at = now
    BY <2>1, <2>2, TickPlaces
  <2> QED
    BY <2>1, <2>2, <2>3, TickLoners
<1> QED
  BY <1>1, <1>2, <1>3 DEF Next, vars, tracker, Prime, Appear, Vanish, Iterate

(* Two actions that belong together are never both given up as unpaired, whatever       *)
(* arrives later and whatever ids rows have, as long as no action of their kind and key  *)
(* is hidden: a partner that would have fitted a loner keeps the one it has until both   *)
(* are handed out.                                                                *)
ClassesKeep ==
  \A kind \in Kind, key \in Keys : Quiet(Deeds(kind, key)) => Lonely(Deeds(kind, key))

THEOREM PairsAreNotMissed == Spec => []NoMissedPair
<1>1. Init => ClassesKeep
  <2> SUFFICES ASSUME Init, NEW D PROVE Lonely(D)
    BY DEF ClassesKeep
  <2>1. observed = {} /\ reports = {}
    BY DEF Init
  <2>2. \A c : LonersOf(c, D) = {} /\ LeftActive(c, D) = {}
    BY <2>1 DEF LonersOf, Loners, LeftActive, ActiveOf
  <2>3. Correlation({}, {}, {}) /\ {} \in SUBSET Candidates({}, {})
    BY DEF Correlation
  <2>4. MfcLonersLeft(D)
    BY <2>2, <2>3 DEF MfcLonersLeft
  <2> QED
    BY <2>2, <2>4 DEF Lonely, RustLonersLeft, LonersApart
<1>2. IInv /\ IInv' /\ Placed /\ Placed' /\ LonersAreOld /\ ClassesKeep /\ [Next]_vars
        => ClassesKeep'
  <2> SUFFICES ASSUME IInv, IInv', Placed, Placed', LonersAreOld, ClassesKeep, [Next]_vars,
                      NEW kind \in Kind, NEW key \in Keys, Quiet(Deeds(kind, key))'
               PROVE  Lonely(Deeds(kind, key))'
    BY DEF ClassesKeep
  <2> DEFINE D == Deeds(kind, key)
  <2>1. D \in SUBSET Action /\ Class(D)
    BY DeedsAreClass
  <2> HIDE DEF D
  <2>2. Quiet(D)'
    BY DEF D
  <2>3. Quiet(D)
    BY <2>1, <2>2, QuietBefore
  <2>4. Lonely(D)
    BY <2>3 DEF ClassesKeep, D
  <2>5. Lonely(D)'
    BY <2>1, <2>2, <2>4, LonersStep
  <2> QED
    BY <2>5 DEF D
<1>3. IInv /\ ClassesKeep => NoMissedPair
  <2> SUFFICES ASSUME IInv, ClassesKeep, NEW r1 \in reports, NEW r2 \in reports,
                      NEW a \in r1.members, NEW b \in r2.members,
                      r1.members = {a}, r2.members = {b}, a.client # b.client, Compatible(a, b),
                      \A c \in observed : SameDeed(a, c) => ~Hidden(c)
               PROVE  FALSE
    BY DEF NoMissedPair
  <2> DEFINE D == Deeds(a.kind, a.key)
  <2>1. a \in observed /\ b \in observed
    BY DEF IInv, ReportsAreProcessed
  <2>2. a \in Action /\ b \in Action
    BY <2>1 DEF IInv, TypeOK
  <2>3. a \in D /\ b \in D /\ a.kind \in Kind /\ a.key \in Keys
    BY <2>2 DEF Deeds, Compatible, Action
  <2>4. Quiet(D)
    BY DEF Quiet, Deeds, SameDeed
  <2>5. LonersApart(D)
    BY <2>3, <2>4 DEF ClassesKeep, Lonely
  <2>6. a \in LonersOf(a.client, D) /\ b \in LonersOf(b.client, D)
    BY <2>1, <2>3 DEF LonersOf, Loners
  <2>7. Compatible(b, a)
    BY <2>2 DEF Compatible, Distance, Action
  <2>8. a.client \in {"rust", "mfc"} /\ b.client \in {"rust", "mfc"}
    BY <2>2 DEF Action, Client
  <2> QED
    BY <2>5, <2>6, <2>7, <2>8 DEF LonersApart
<1> QED
  BY <1>1, <1>2, <1>3, Invariance, StaysPlaced, LonersStayOld, PTL DEF Spec
====
