---- MODULE LaneProofs ----
(***************************************************************************)
(* Proof that a lane forgets nothing, for every table of disciplined lanes.  *)
(***************************************************************************)
EXTENDS Lane, TLAPS

body == lane.body
After(m) == m + body[m].skip

(* Every instance comes from a step of the body that creates its resource.     *)
Created(x) ==
  /\ x \in Instances /\ x.since \in DOMAIN body
  /\ Creates(body[x.since]) /\ body[x.since].res = x.res
  /\ phase = "body" => x.since < at
PlaceInv == \A x \in running \cup held \cup unadopted : Created(x)

(* Since step i an option has left out step k; the spawns that are still        *)
(* waiting for their callee were not among what it left out.                 *)
Omitted(i, k) ==
  \E m \in DOMAIN body :
    /\ i < m /\ m <= k /\ k < After(m) /\ After(m) <= at
    /\ \A u \in unadopted : u.since < m \/ After(m) <= u.since

(* In the body: no adoption was reached since a spawn that still waits; what    *)
(* the lane answers for is stored or waits, and no close or kill of it was      *)
(* reached since.                                                           *)
Waits(u) ==
  /\ body[u.since].op = "spawn"
  /\ \A j \in DOMAIN body :
       (u.since < j /\ j < at /\ body[j].op = "adopt" /\ body[j].res = u.res)
         => Omitted(u.since, j)
Answered(x) ==
  /\ x \in held \cup unadopted
  /\ \A k \in DOMAIN body :
       (x.since < k /\ k < at /\ Finishes(body[k]) /\ body[k].res = x.res)
         => Omitted(x.since, k)
BodyInv ==
  phase = "body" => /\ \A u \in unadopted : Waits(u)
                    /\ \A x \in running \ (attempted \cup kept) : Answered(x)

(* In the teardown: it is stored, and the entry that releases it is to come.    *)
ToCome(x) ==
  /\ x \in held
  /\ \E k \in DOMAIN lane.cleanup :
       at <= k /\ lane.cleanup[k].op = "release" /\ lane.cleanup[k].res = x.res
CleanupInv == phase = "cleanup" => \A x \in running \ Settled : ToCome(x)

IInv ==
  /\ name \in DOMAIN Table /\ phase \in {"body", "cleanup", "ended"} /\ at \in Nat \ {0}
  /\ PlaceInv /\ BodyInv /\ CleanupInv /\ NothingForgotten

----------------------------------------------------------------------------
(* What the assumptions say of the lane that runs.                            *)
LEMMA LaneFacts ==
  ASSUME name \in DOMAIN Table
  PROVE  /\ body \in Seq(Steps) /\ lane.cleanup \in Seq(Entries)
         /\ DOMAIN body = 1..Len(body) /\ Len(body) \in Nat
         /\ DOMAIN lane.cleanup = 1..Len(lane.cleanup) /\ Len(lane.cleanup) \in Nat
         /\ \A k \in DOMAIN body : body[k] \in Steps /\ body[k].skip \in Nat
         /\ Disciplined(body, lane.cleanup) /\ PhasesStore(body)
<1>1. body \in Seq(Steps) /\ lane.cleanup \in Seq(Entries)
  BY TableAssumption DEF body, lane
<1>2. \A k \in DOMAIN body : body[k] \in Steps
  BY <1>1
<1>3. \A k \in DOMAIN body : body[k].skip \in Nat
  BY <1>2 DEF Steps
<1>4. Disciplined(body, lane.cleanup) /\ PhasesStore(body)
  BY DisciplineAssumption DEF body, lane
<1> QED
  BY <1>1, <1>2, <1>3, <1>4

(* What has been left out stays left out.                                     *)
LEMMA OmittedStays ==
  ASSUME IInv, name' = name, at' \in Nat, at <= at',
         \A u \in unadopted' : u \in unadopted \/ u.since = at,
         NEW i, NEW k, Omitted(i, k)
  PROVE  Omitted(i, k)'
<1>1. PICK m \in DOMAIN body :
        /\ i < m /\ m <= k /\ k < After(m) /\ After(m) <= at
        /\ \A u \in unadopted : u.since < m \/ After(m) <= u.since
  BY DEF Omitted
<1>2. body' = body /\ After(m)' = After(m)
  BY DEF body, lane, After
<1>3. m \in Nat /\ After(m) \in Nat /\ at \in Nat
  BY LaneFacts DEF After, IInv
<1>4. \A u \in unadopted' : u.since < m \/ After(m) <= u.since
  BY <1>1
<1> QED
  BY <1>1, <1>2, <1>3, <1>4 DEF Omitted

(* A step of the body that is not an adoption of u's resource leaves u waiting; *)
(* one that does not finish x leaves it answered for.                        *)
LEMMA WaitsOn ==
  ASSUME IInv, InBody, name' = name, at' = at + 1,
         \A v \in unadopted' : v \in unadopted \/ v.since = at,
         NEW u \in unadopted, ~(step.op = "adopt" /\ step.res = u.res)
  PROVE  Waits(u)'
<1>1. Waits(u)
  BY DEF IInv, BodyInv, InBody
<1>2. body' = body /\ at \in Nat /\ DOMAIN body \subseteq Nat
  BY LaneFacts DEF body, lane, IInv
<1>3. ASSUME NEW j \in DOMAIN body, u.since < j, j < at + 1, body[j].op = "adopt", body[j].res = u.res
      PROVE  Omitted(u.since, j)'
  <2>1. j < at
    BY <1>2, <1>3 DEF step, body
  <2>2. Omitted(u.since, j)
    BY <1>1, <1>3, <2>1 DEF Waits
  <2> QED
    BY <2>2, <1>2, OmittedStays
<1> QED
  BY <1>1, <1>2, <1>3 DEF Waits

LEMMA AnsweredOn ==
  ASSUME IInv, InBody, name' = name, at' = at + 1,
         \A v \in unadopted' : v \in unadopted \/ v.since = at,
         NEW x \in running \ (attempted \cup kept), x \in held' \cup unadopted',
         ~(Finishes(step) /\ step.res = x.res)
  PROVE  Answered(x)'
<1>1. Answered(x)
  BY DEF IInv, BodyInv, InBody
<1>2. body' = body /\ at \in Nat /\ DOMAIN body \subseteq Nat
  BY LaneFacts DEF body, lane, IInv
<1>3. ASSUME NEW k \in DOMAIN body, x.since < k, k < at + 1, Finishes(body[k]), body[k].res = x.res
      PROVE  Omitted(x.since, k)'
  <2>1. k < at
    BY <1>2, <1>3 DEF step, body
  <2>2. Omitted(x.since, k)
    BY <1>1, <1>3, <2>1 DEF Answered
  <2> QED
    BY <2>2, <1>2, OmittedStays
<1> QED
  BY <1>1, <1>2, <1>3 DEF Answered

(* What a step has just created waits and is answered for, if it is stored.     *)
LEMMA FreshOn ==
  ASSUME IInv, InBody, name' = name, at' = at + 1, NEW x, x = Instance(step.res)
  PROVE  /\ Creates(step) => Created(x)'
         /\ step.op = "spawn" => Waits(x)'
         /\ x \in held' \cup unadopted' => Answered(x)'
<1>1. body' = body /\ at \in Nat /\ DOMAIN body \subseteq Nat /\ at \in DOMAIN body
  BY LaneFacts DEF body, lane, IInv, InBody
<1>2. x.res = step.res /\ x.since = at /\ step = body[at]
  BY DEF Instance, step, body
<1>3. \A j \in DOMAIN body : ~(x.since < j /\ j < at + 1)
  BY <1>1, <1>2
<1>4. x \in Instances
  BY <1>1, LaneFacts DEF Instance, Instances, Steps, step, body, IInv
<1>5. Creates(step) => Created(x)'
  BY <1>1, <1>2, <1>4 DEF Created
<1>6. step.op = "spawn" => Waits(x)'
  BY <1>1, <1>2, <1>3 DEF Waits
<1>7. x \in held' \cup unadopted' => Answered(x)'
  BY <1>1, <1>3 DEF Answered
<1> QED
  BY <1>5, <1>6, <1>7

(* Where a step creates a resource, what the lane still answers for of it is    *)
(* gone; where one closes or kills it, no spawn of it waits.                 *)
LEMMA NoneOlder ==
  ASSUME IInv, InBody, Creates(step), NEW x \in held \cup unadopted, x.res = step.res
  PROVE  x \notin running \ (attempted \cup kept)
<1>1. /\ DOMAIN body \subseteq Nat /\ at \in DOMAIN body /\ step = body[at] /\ at \in Nat
      /\ Disciplined(body, lane.cleanup) /\ Created(x) /\ x.since < at
  BY LaneFacts DEF IInv, InBody, step, body, PlaceInv, Created
<1>2. PICK k \in DOMAIN body : /\ x.since < k /\ k < at /\ Bound(body, x.since, k, at)
                               /\ Finishes(body[k]) /\ body[k].res = x.res
  BY <1>1 DEF Disciplined, Created
<1>3. SUFFICES ASSUME x \in running \ (attempted \cup kept) PROVE FALSE
  OBVIOUS
<1>4. Omitted(x.since, k)
  BY <1>2, <1>3 DEF IInv, BodyInv, InBody, Answered
<1>5. PICK m \in DOMAIN body : x.since < m /\ m <= k /\ k < After(m) /\ After(m) <= at
  BY <1>4 DEF Omitted
<1>6. at < After(m)
  BY <1>2, <1>5 DEF Bound, After
<1> QED
  BY <1>1, <1>5, <1>6, LaneFacts DEF After, IInv

LEMMA NoneWaits ==
  ASSUME IInv, InBody, Finishes(step), NEW u \in unadopted
  PROVE  u.res # step.res
<1>1. /\ DOMAIN body \subseteq Nat /\ at \in DOMAIN body /\ step = body[at] /\ at \in Nat
      /\ Disciplined(body, lane.cleanup) /\ Created(u) /\ u.since < at /\ Waits(u)
  BY LaneFacts DEF IInv, InBody, step, body, PlaceInv, BodyInv, Created
<1>2. SUFFICES ASSUME u.res = step.res PROVE FALSE
  OBVIOUS
<1>3. PICK j \in DOMAIN body : /\ u.since < j /\ j < at /\ Bound(body, u.since, j, at)
                               /\ body[j].op = "adopt" /\ body[j].res = u.res
  BY <1>1, <1>2 DEF Disciplined, Created, Waits
<1>4. PICK m \in DOMAIN body : u.since < m /\ m <= j /\ j < After(m) /\ After(m) <= at
  BY <1>1, <1>3 DEF Waits, Omitted
<1>5. at < After(m)
  BY <1>3, <1>4 DEF Bound, After
<1> QED
  BY <1>1, <1>4, <1>5, LaneFacts DEF After, IInv

(* Where a spawned resource is adopted, what it replaces is gone.              *)
LEMMA NoneReplaced ==
  ASSUME IInv, InBody, NEW u \in unadopted, NEW x \in held, x.res = u.res, x.since < u.since
  PROVE  x \notin running \ (attempted \cup kept)
<1>1. /\ DOMAIN body \subseteq Nat /\ Disciplined(body, lane.cleanup) /\ at \in Nat
      /\ Created(x) /\ Created(u) /\ u.since < at
  BY LaneFacts DEF IInv, InBody, PlaceInv, Created
<1>2. PICK k \in DOMAIN body : /\ x.since < k /\ k < u.since /\ Bound(body, x.since, k, u.since)
                               /\ Finishes(body[k]) /\ body[k].res = x.res
  BY <1>1 DEF Disciplined, Created
<1>3. SUFFICES ASSUME x \in running \ (attempted \cup kept) PROVE FALSE
  OBVIOUS
<1>4. k < at /\ x.since \in Nat /\ u.since \in Nat
  BY <1>1, <1>2 DEF Created
<1>5. Omitted(x.since, k)
  BY <1>2, <1>3, <1>4 DEF IInv, BodyInv, InBody, Answered
<1>6. PICK m \in DOMAIN body : /\ x.since < m /\ m <= k /\ k < After(m)
                               /\ u.since < m \/ After(m) <= u.since
  BY <1>5 DEF Omitted
<1>7. u.since < After(m)
  BY <1>2, <1>6 DEF Bound, After
<1>8. m \in Nat /\ After(m) \in Nat /\ k \in Nat
  BY <1>1, LaneFacts DEF After, IInv
<1> QED
  BY <1>2, <1>4, <1>6, <1>7, <1>8

----------------------------------------------------------------------------
(* Each action keeps the invariant; first the body.                          *)
LEMMA OmitKeeps == IInv /\ Omit => IInv'
<1> SUFFICES ASSUME IInv, Omit PROVE IInv'
  OBVIOUS
<1>1. /\ InBody /\ phase = "body" /\ at \in Nat \ {0} /\ at \in DOMAIN body /\ step = body[at]
      /\ step.skip \in Nat /\ DOMAIN body \subseteq Nat
      /\ \A m \in DOMAIN body : After(m) \in Nat
  BY LaneFacts DEF IInv, Omit, InBody, step, body, After
<1>2. at' = After(at) /\ at' \in Nat \ {0} /\ at < at' /\ name' = name /\ phase' = "body"
  BY <1>1 DEF Omit, After
<1>3. body' = body /\ lane' = lane /\ unadopted' = unadopted /\ held' = held
      /\ running' = running /\ attempted' = attempted /\ kept' = kept
  BY <1>2 DEF body, lane, Omit, owned
<1>4. PlaceInv'
  BY <1>1, <1>2, <1>3 DEF IInv, PlaceInv, Created
<1>5. ASSUME NEW x \in running \cup unadopted, NEW k \in DOMAIN body, x.since < k, k < at',
             k < at => Omitted(x.since, k)
      PROVE  Omitted(x.since, k)'
  <2>1. x.since < at /\ x.since \in Nat /\ \A u \in unadopted : u.since < at
    BY <1>1 DEF IInv, PlaceInv, Created
  <2>2. CASE k < at
    BY <2>2, <1>1, <1>2, <1>3, <1>5, OmittedStays
  <2>3. CASE at <= k
    <3>1. /\ x.since < at /\ at <= k /\ k < After(at) /\ After(at) <= at'
          /\ \A u \in unadopted : u.since < at \/ After(at) <= u.since
      BY <2>1, <2>3, <1>2, <1>5
    <3>2. After(at) = at + body[at].skip
      BY DEF After
    <3>3. \E m \in DOMAIN body :
            /\ x.since < m /\ m <= k /\ k < m + body[m].skip /\ m + body[m].skip <= at'
            /\ \A u \in unadopted : u.since < m \/ m + body[m].skip <= u.since
      BY <1>1, <3>1, <3>2
    <3> QED
      BY <1>3, <3>3 DEF Omitted, After
  <2> QED
    BY <2>2, <2>3, <1>1
<1>6. \A u \in unadopted : Waits(u)'
  BY <1>1, <1>3, <1>5 DEF IInv, BodyInv, Waits
<1>7. \A x \in running \ (attempted \cup kept) : Answered(x)'
  BY <1>1, <1>3, <1>5 DEF IInv, BodyInv, Answered
<1> QED
  BY <1>1, <1>2, <1>3, <1>4, <1>6, <1>7 DEF IInv, BodyInv, CleanupInv, NothingForgotten

(* What the steps that go on by one have in common.                           *)
LEMMA OnwardKeeps ==
  ASSUME IInv, InBody, Onward,
         \A v \in unadopted' : v \in unadopted \/ v.since = at,
         \A x \in running' \cup held' \cup unadopted' :
           x \in running \cup held \cup unadopted \/ Created(x)',
         \A u \in unadopted' : Waits(u)',
         \A x \in running' \ (attempted' \cup kept') : Answered(x)'
  PROVE  IInv'
<1>1. phase = "body" /\ phase' = "body" /\ name' = name /\ at \in Nat \ {0} /\ at' = at + 1
  BY DEF IInv, InBody, Onward
<1>2. body' = body /\ lane' = lane
  BY <1>1 DEF body, lane
<1>3. DOMAIN body \subseteq Nat
  BY LaneFacts DEF IInv
<1>4. \A x \in running \cup held \cup unadopted : Created(x)'
  BY <1>1, <1>2, <1>3 DEF IInv, PlaceInv, Created
<1>5. PlaceInv'
  BY <1>4 DEF PlaceInv
<1> QED
  BY <1>1, <1>5 DEF IInv, BodyInv, CleanupInv, NothingForgotten

LEMMA PassKeeps == IInv /\ Pass => IInv'
<1> SUFFICES ASSUME IInv, Pass PROVE IInv'
  OBVIOUS
<1>1. /\ InBody /\ Onward /\ phase = "body" /\ name' = name /\ at' = at + 1
      /\ running' = running /\ held' = held /\ attempted' = attempted
      /\ unadopted' = unadopted /\ kept' = kept
  BY DEF Pass, InBody, Onward, owned
<1>2. ASSUME NEW u \in unadopted PROVE Waits(u)'
  <2>1. ~(step.op = "adopt" /\ step.res = u.res)
    BY DEF Pass
  <2> QED
    BY <1>1, <2>1, WaitsOn
<1>3. ASSUME NEW x \in running \ (attempted \cup kept) PROVE Answered(x)'
  <2>1. x \in held \cup unadopted
    BY <1>1 DEF IInv, BodyInv, Answered
  <2>2. ~(Finishes(step) /\ step.res = x.res)
    <3>1. SUFFICES ASSUME Finishes(step), step.res = x.res PROVE FALSE
      OBVIOUS
    <3>2. x \in held
      BY <1>1, <2>1, <3>1, NoneWaits
    <3>3. Held(step.res) = {}
      BY <3>1 DEF Pass, Finishes
    <3> QED
      BY <3>1, <3>2, <3>3 DEF Held
  <2> QED
    BY <1>1, <2>1, <2>2, AnsweredOn
<1> QED
  BY <1>1, <1>2, <1>3, OnwardKeeps

LEMMA StartKeeps == IInv /\ StartStep => IInv'
<1> SUFFICES ASSUME IInv, StartStep PROVE IInv'
  OBVIOUS
<1> DEFINE y == [res |-> step.res, since |-> at]
<1>1. /\ InBody /\ Onward /\ phase = "body" /\ name' = name /\ at' = at + 1
      /\ step.op = "start" /\ running' = running \cup {y} /\ held' = Stored({y})
      /\ attempted' = attempted /\ unadopted' = unadopted /\ kept' = kept
  BY DEF StartStep, InBody, Onward, Instance
<1>2. PICK z : z = y
  OBVIOUS
<1>3. z \in held' /\ z.res = step.res /\ z.since = at /\ z = Instance(step.res)
  BY <1>1, <1>2 DEF Stored, Instance
<1>4. Created(z)' /\ Answered(z)'
  BY <1>1, <1>3, FreshOn DEF Creates
<1>5. ASSUME NEW u \in unadopted PROVE Waits(u)'
  BY <1>1, WaitsOn
<1>6. ASSUME NEW x \in running \ (attempted \cup kept) PROVE Answered(x)'
  <2>1. x \in held \cup unadopted
    BY <1>1 DEF IInv, BodyInv, Answered
  <2>2. x \in held => x.res # step.res
    BY <1>1, <1>6, NoneOlder DEF Creates
  <2>3. x \in held => x \in held'
    BY <1>1, <2>2 DEF Stored
  <2>4. ~(Finishes(step) /\ step.res = x.res)
    BY <1>1 DEF Finishes
  <2> QED
    BY <1>1, <2>1, <2>3, <2>4, AnsweredOn
<1>7. \A x \in running' \cup held' : x \in running \cup held \/ x = z
  BY <1>1, <1>2 DEF Stored
<1>8. \A x \in running' \ (attempted' \cup kept') : Answered(x)'
  BY <1>1, <1>2, <1>4, <1>6
<1> QED
  BY <1>1, <1>4, <1>5, <1>7, <1>8, OnwardKeeps

LEMMA SpawnKeeps == IInv /\ SpawnStep => IInv'
<1> SUFFICES ASSUME IInv, SpawnStep PROVE IInv'
  OBVIOUS
<1> DEFINE y == [res |-> step.res, since |-> at]
<1>1. /\ InBody /\ Onward /\ phase = "body" /\ name' = name /\ at' = at + 1
      /\ step.op = "spawn" /\ running' = running \cup {y} /\ unadopted' = unadopted \cup {y}
      /\ held' = held /\ attempted' = attempted /\ kept' = kept
  BY DEF SpawnStep, InBody, Onward, Instance
<1>2. PICK z : z = y
  OBVIOUS
<1>3. z \in unadopted' /\ z.since = at /\ z = Instance(step.res)
  BY <1>1, <1>2 DEF Instance
<1>4. Created(z)' /\ Waits(z)' /\ Answered(z)'
  BY <1>1, <1>3, FreshOn DEF Creates
<1>5. \A v \in unadopted' : v \in unadopted \/ v.since = at
  BY <1>1, <1>2, <1>3
<1>6. ASSUME NEW u \in unadopted PROVE Waits(u)'
  BY <1>1, <1>5, WaitsOn
<1>7. ASSUME NEW x \in running \ (attempted \cup kept) PROVE Answered(x)'
  <2>1. x \in held' \cup unadopted'
    BY <1>1 DEF IInv, BodyInv, Answered
  <2>2. ~(Finishes(step) /\ step.res = x.res)
    BY <1>1 DEF Finishes
  <2> QED
    BY <1>1, <1>5, <2>1, <2>2, AnsweredOn
<1>8. /\ \A x \in running' \cup held' \cup unadopted' : x \in running \cup held \cup unadopted \/ x = z
      /\ \A u \in unadopted' : Waits(u)'
      /\ \A x \in running' \ (attempted' \cup kept') : Answered(x)'
  BY <1>1, <1>2, <1>4, <1>6, <1>7
<1> QED
  BY <1>1, <1>4, <1>5, <1>8, OnwardKeeps

LEMMA AdoptKeeps == IInv /\ AdoptStep => IInv'
<1> SUFFICES ASSUME IInv, AdoptStep PROVE IInv'
  OBVIOUS
<1> DEFINE new == {u \in unadopted : u.res = step.res}
<1>1. /\ InBody /\ Onward /\ phase = "body" /\ name' = name /\ at' = at + 1
      /\ step.op = "adopt" /\ held' = Stored(new) /\ unadopted' = unadopted \ new
      /\ running' = running /\ attempted' = attempted /\ kept' = kept
  BY DEF AdoptStep, InBody, Onward
<1>2. ASSUME NEW u \in unadopted' PROVE Waits(u)'
  <2>1. u \in unadopted /\ u.res # step.res
    BY <1>1
  <2> QED
    BY <1>1, <2>1, WaitsOn
<1>3. ASSUME NEW x \in running \ (attempted \cup kept) PROVE Answered(x)'
  <2>1. x \in held \cup unadopted
    BY <1>1 DEF IInv, BodyInv, Answered
  <2>2. x \in unadopted => x \in held' \cup unadopted'
    BY <1>1 DEF Stored
  <2>3. ASSUME x \in held PROVE x \in held'
    <3>1. ASSUME NEW n \in new, x.res = n.res PROVE n.since <= x.since
      <4>1. n \in unadopted /\ ~(x.since < n.since)
        BY <1>1, <1>3, <2>3, <3>1, NoneReplaced
      <4>2. n.since \in DOMAIN body /\ x.since \in DOMAIN body
        BY <4>1, <2>3 DEF IInv, PlaceInv, Created
      <4> QED
        BY <4>1, <4>2, LaneFacts DEF IInv
    <3> QED
      BY <1>1, <2>3, <3>1 DEF Stored
  <2>4. ~(Finishes(step) /\ step.res = x.res)
    BY <1>1 DEF Finishes
  <2> QED
    BY <1>1, <2>1, <2>2, <2>3, <2>4, AnsweredOn
<1>4. held' \subseteq held \cup unadopted
  BY <1>1 DEF Stored
<1> QED
  BY <1>1, <1>2, <1>3, <1>4, OnwardKeeps

(* A close or a kill answers for all that is stored of its resource.           *)
LEMMA FinishKeeps ==
  ASSUME IInv, InBody, Onward, Finishes(step),
         running' \subseteq running, held \ Held(step.res) \subseteq held', held' \subseteq held,
         attempted' = attempted \cup Held(step.res), unadopted' = unadopted, kept' = kept
  PROVE  IInv'
<1>1. phase = "body" /\ name' = name /\ at' = at + 1 /\ step.op # "adopt"
  BY DEF InBody, Onward, Finishes
<1>2. ASSUME NEW u \in unadopted PROVE Waits(u)'
  BY <1>1, WaitsOn
<1>3. ASSUME NEW x \in running' \ (attempted' \cup kept') PROVE Answered(x)'
  <2>1. x \in running \ (attempted \cup kept) /\ x \notin Held(step.res)
    OBVIOUS
  <2>2. x \in held \cup unadopted
    BY <1>1, <2>1 DEF IInv, BodyInv, Answered
  <2>3. x \in held => x.res # step.res
    BY <2>1 DEF Held
  <2>4. x.res # step.res
    BY <2>2, <2>3, NoneWaits
  <2>5. x \in held' \cup unadopted'
    BY <2>1, <2>2
  <2> QED
    BY <1>1, <2>1, <2>4, <2>5, AnsweredOn
<1> QED
  BY <1>2, <1>3, OnwardKeeps

LEMMA CloseKeeps == IInv /\ CloseStep => IInv'
<1> SUFFICES ASSUME IInv, CloseStep PROVE IInv'
  OBVIOUS
<1>1. Finishes(step)
  BY DEF CloseStep, Finishes
<1> QED
  BY <1>1, FinishKeeps DEF CloseStep

LEMMA KillKeeps == IInv /\ KillStep => IInv'
<1> SUFFICES ASSUME IInv, KillStep PROVE IInv'
  OBVIOUS
<1>1. Finishes(step) /\ running' \subseteq running
  BY DEF KillStep, Finishes
<1> QED
  BY <1>1, FinishKeeps DEF KillStep

(* What an exception in a phase leaves of its step, and where it leads.          *)
LEMMA PhaseFacts ==
  ASSUME IInv, InBody, Interrupted
  PROVE  /\ running' \subseteq running /\ held' \subseteq held /\ held \ Tried \subseteq held'
         /\ attempted' = attempted \cup Tried /\ unadopted' = unadopted /\ kept' = kept
         /\ Tried = IF Finishes(step) THEN Held(step.res) ELSE {}
         /\ step.under = "phase" => step.op \in {"work", "start", "close"}
<1>1. step.under = "phase" => step.op \in {"work", "start", "close"}
  BY LaneFacts DEF IInv, InBody, PhasesStore, step, body
<1> QED
  BY <1>1 DEF Interrupted, Tried, Finishes

LEMMA NotedKeeps == IInv /\ RaiseNoted => IInv'
<1> SUFFICES ASSUME IInv, RaiseNoted PROVE IInv'
  OBVIOUS
<1>1. /\ InBody /\ Onward /\ phase = "body" /\ name' = name /\ at' = at + 1
      /\ Interrupted /\ step.under = "phase"
  BY DEF RaiseNoted, InBody, Onward
<1>2. CASE Finishes(step)
  BY <1>1, <1>2, PhaseFacts, FinishKeeps
<1>3. CASE ~Finishes(step)
  <2>1. /\ running' \subseteq running /\ held' = held /\ attempted' = attempted
        /\ unadopted' = unadopted /\ kept' = kept /\ step.op # "adopt"
    BY <1>1, <1>3, PhaseFacts
  <2>2. ASSUME NEW u \in unadopted PROVE Waits(u)'
    BY <1>1, <2>1, WaitsOn
  <2>3. ASSUME NEW x \in running' \ (attempted' \cup kept') PROVE Answered(x)'
    <3>1. x \in running \ (attempted \cup kept) /\ x \in held' \cup unadopted'
      BY <1>1, <2>1 DEF IInv, BodyInv, Answered
    <3> QED
      BY <1>1, <1>3, <2>1, <3>1, AnsweredOn
  <2> QED
    BY <1>1, <2>1, <2>2, <2>3, OnwardKeeps
<1> QED
  BY <1>2, <1>3

(* From the body to the teardown, whichever way.                              *)
LEMMA ToCleanupKeeps ==
  ASSUME IInv, phase = "body", ToCleanup, running' \subseteq running, held' \subseteq held,
         held \ attempted' \subseteq held', unadopted' = unadopted, attempted \subseteq attempted',
         kept' = kept
  PROVE  IInv'
<1>1. phase' = "cleanup" /\ at' = 1 /\ name' = name /\ lane' = lane /\ body' = body
  BY DEF ToCleanup, lane, body
<1>2. PlaceInv'
  BY <1>1 DEF IInv, PlaceInv, Created
<1>3. ASSUME NEW x \in running' \ Settled' PROVE ToCome(x)'
  <2>1. x \in running \ (attempted \cup kept) /\ x \notin unadopted
    BY DEF Settled
  <2>2. x \in held /\ x \in held' /\ Created(x)
    BY <2>1 DEF IInv, BodyInv, Answered, PlaceInv, Settled
  <2>3. PICK k \in DOMAIN lane.cleanup :
          lane.cleanup[k].op = "release" /\ lane.cleanup[k].res = x.res
    BY <2>2, LaneFacts DEF IInv, Disciplined, Created
  <2>4. 1 <= k
    BY LaneFacts DEF IInv
  <2> QED
    BY <1>1, <2>2, <2>3, <2>4 DEF ToCome
<1> QED
  BY <1>1, <1>2, <1>3 DEF IInv, BodyInv, CleanupInv, NothingForgotten

LEMMA LeavingKeeps == IInv /\ (LeaveStep \/ Finish \/ RaiseInTry) => IInv'
<1> SUFFICES ASSUME IInv, LeaveStep \/ Finish \/ RaiseInTry PROVE IInv'
  OBVIOUS
<1>1. CASE LeaveStep
  BY <1>1, ToCleanupKeeps DEF LeaveStep, InBody, owned
<1>2. CASE Finish
  BY <1>2, ToCleanupKeeps DEF Finish, owned
<1>3. CASE RaiseInTry
  <2>1. InBody /\ Interrupted /\ ToCleanup /\ phase = "body"
    BY <1>3 DEF RaiseInTry, InBody
  <2>2. held \ attempted' \subseteq held'
    BY <2>1, PhaseFacts
  <2> QED
    BY <2>1, <2>2, PhaseFacts, ToCleanupKeeps
<1> QED
  BY <1>1, <1>2, <1>3

(* An exception past the teardown promises nothing.                            *)
LEMMA TornKeeps ==
  ASSUME IInv, Torn, name' = name, at' = at, running' \subseteq running, held' = held,
         unadopted' = unadopted
  PROVE  IInv'
<1>1. phase' = "ended" /\ torn' = TRUE /\ lane' = lane /\ body' = body
  BY DEF Torn, lane, body
<1>2. PlaceInv'
  BY <1>1 DEF IInv, PlaceInv, Created
<1> QED
  BY <1>1, <1>2 DEF IInv, BodyInv, CleanupInv, NothingForgotten

LEMMA TearingKeeps ==
  IInv /\ (RaiseBare \/ RaiseRescued \/ ReleaseRaises \/ EntryRaises) => IInv'
<1> SUFFICES ASSUME IInv, RaiseBare \/ RaiseRescued \/ ReleaseRaises \/ EntryRaises PROVE IInv'
  OBVIOUS
<1>1. Torn /\ name' = name /\ at' = at /\ held' = held /\ unadopted' = unadopted
  BY DEF RaiseBare, RaiseRescued, ReleaseRaises, EntryRaises, Interrupted, Refused, owned
<1>2. running' \subseteq running
  BY DEF RaiseBare, RaiseRescued, ReleaseRaises, EntryRaises, Interrupted, Refused, owned
<1> QED
  BY <1>1, <1>2, TornKeeps

----------------------------------------------------------------------------
(* The teardown, one entry on.                                               *)
LEMMA EntryKeeps ==
  ASSUME IInv, InCleanup, Onward, running' \subseteq running, held' = held,
         unadopted' = unadopted, attempted \subseteq attempted', kept \subseteq kept',
         entry.op = "release" => running' \cap Held(entry.res) \subseteq attempted' \cup kept'
  PROVE  IInv'
<1>1. /\ phase = "cleanup" /\ phase' = "cleanup" /\ at \in Nat \ {0} /\ at' = at + 1
      /\ name' = name /\ lane' = lane /\ body' = body
  BY DEF InCleanup, Onward, lane, body, IInv
<1>2. PlaceInv'
  BY <1>1 DEF IInv, PlaceInv, Created
<1>3. ASSUME NEW x \in running' \ Settled' PROVE ToCome(x)'
  <2>1. x \in running \ Settled /\ x \notin attempted' \cup kept'
    BY DEF Settled
  <2>2. x \in held
    BY <1>1, <2>1 DEF IInv, CleanupInv, ToCome
  <2>3. PICK k \in DOMAIN lane.cleanup :
          at <= k /\ lane.cleanup[k].op = "release" /\ lane.cleanup[k].res = x.res
    BY <1>1, <2>1 DEF IInv, CleanupInv, ToCome
  <2>4. k # at
    BY <1>3, <2>1, <2>2, <2>3 DEF entry, Held
  <2>5. at + 1 <= k
    BY <1>1, <2>3, <2>4, LaneFacts DEF IInv
  <2> QED
    BY <1>1, <2>2, <2>3, <2>5 DEF ToCome
<1> QED
  BY <1>1, <1>2, <1>3 DEF IInv, BodyInv, CleanupInv, NothingForgotten

LEMMA CleaningKeeps ==
  IInv /\ (Keep \/ GiveBack \/ ReleaseNoted \/ Examine \/ WriteReport) => IInv'
<1> SUFFICES ASSUME IInv, Keep \/ GiveBack \/ ReleaseNoted \/ Examine \/ WriteReport PROVE IInv'
  OBVIOUS
<1>1. CASE Keep
  BY <1>1, EntryKeeps DEF Keep
<1>2. CASE GiveBack
  BY <1>2, EntryKeeps DEF GiveBack, Due
<1>3. CASE ReleaseNoted
  <2>1. running' \subseteq running
    BY <1>3 DEF ReleaseNoted, Refused
  <2> QED
    BY <1>3, <2>1, EntryKeeps DEF ReleaseNoted, Refused, Due
<1>4. CASE Examine \/ WriteReport
  BY <1>4, EntryKeeps DEF Examine, WriteReport, owned, InCleanup
<1> QED
  BY <1>1, <1>2, <1>3, <1>4

LEMMA EndKeeps == IInv /\ End => IInv'
<1> SUFFICES ASSUME IInv, End PROVE IInv'
  OBVIOUS
<1>1. /\ phase = "cleanup" /\ phase' = "ended" /\ at > Len(lane.cleanup) /\ at \in Nat
      /\ at' = at /\ name' = name /\ lane' = lane /\ body' = body /\ running' = running
      /\ held' = held /\ unadopted' = unadopted /\ attempted' = attempted /\ kept' = kept
  BY DEF End, owned, lane, body, IInv
<1>2. PlaceInv'
  BY <1>1 DEF IInv, PlaceInv, Created
<1>3. \A x \in running \ Settled : FALSE
  BY <1>1, LaneFacts DEF IInv, CleanupInv, ToCome
<1>4. running' \subseteq Settled'
  BY <1>1, <1>3 DEF Settled
<1> QED
  BY <1>1, <1>2, <1>4 DEF IInv, BodyInv, CleanupInv, NothingForgotten

----------------------------------------------------------------------------
LEMMA Inductive == Spec => []IInv
<1>1. Init => IInv
  BY DEF Init, IInv, PlaceInv, BodyInv, CleanupInv, NothingForgotten
<1>2. IInv /\ [Next]_vars => IInv'
  <2> SUFFICES ASSUME IInv, [Next]_vars PROVE IInv'
    OBVIOUS
  <2>1. CASE Body
    BY <2>1, OmitKeeps, PassKeeps, StartKeeps, SpawnKeeps, AdoptKeeps, CloseKeeps, KillKeeps,
       NotedKeeps, LeavingKeeps, TearingKeeps DEF Body
  <2>2. CASE Cleanup
    BY <2>2, CleaningKeeps, TearingKeeps, EndKeeps DEF Cleanup
  <2>3. CASE UNCHANGED vars
    <3>1. lane' = lane /\ body' = body
      BY <2>3 DEF vars, lane, body
    <3>2. PlaceInv'
      BY <2>3, <3>1 DEF vars, IInv, PlaceInv, Created
    <3>3. BodyInv'
      BY <2>3, <3>1 DEF vars, IInv, BodyInv, Waits, Answered, Omitted, After
    <3>4. CleanupInv' /\ NothingForgotten'
      BY <2>3, <3>1 DEF vars, IInv, CleanupInv, ToCome, NothingForgotten, Settled
    <3> QED
      BY <2>3, <3>2, <3>3, <3>4 DEF vars, IInv
  <2> QED
    BY <2>1, <2>2, <2>3 DEF Next
<1> QED
  BY <1>1, <1>2, PTL DEF Spec

(* However a lane runs, what its table makes it create is given back, tried to  *)
(* be given back, kept on request, or was never handed to it.                *)
THEOREM NothingIsForgotten == Spec => []NothingForgotten
<1>1. IInv => NothingForgotten
  BY DEF IInv
<1> QED
  BY <1>1, Inductive, PTL

----------------------------------------------------------------------------
(* What the steps and entries of the lane that runs are made of.               *)
LEMMA StepFacts ==
  ASSUME name \in DOMAIN Table
  PROVE  /\ InBody => step \in Steps /\ step.res \in STRING
         /\ InCleanup => entry \in Entries
         /\ lane.errors \subseteq Statuses /\ lane.ends \subseteq Statuses
         /\ lane.code \in {"reported", "returned"}
<1>1. InBody => step \in Steps
  BY LaneFacts DEF InBody, step, body
<1>2. InCleanup => entry \in Entries
  BY LaneFacts DEF InCleanup, entry
<1> QED
  BY <1>1, <1>2, TableAssumption DEF Steps, lane

(* Every variable of a lane's run has its type.                               *)
THEOREM TypeCorrect == Spec => []TypeOK
<1>1. Init => TypeOK
  <2> SUFFICES ASSUME Init PROVE TypeOK
    OBVIOUS
  <2>1. "running" \in Statuses /\ 1 \in Nat \ {0} /\ 0 \in Nat /\ FALSE \in BOOLEAN
    BY DEF Statuses
  <2> QED
    BY <2>1 DEF Init, TypeOK
<1>2. TypeOK /\ [Next]_vars => TypeOK'
  <2> SUFFICES ASSUME TypeOK, [Next]_vars PROVE TypeOK'
    OBVIOUS
  <2> USE DEF TypeOK
  <2>1. /\ InBody => at \in Nat \ {0} /\ step \in Steps /\ step.skip \in Nat
                    /\ Instance(step.res) \in Instances
        /\ lane.errors \subseteq Statuses /\ lane.ends \subseteq Statuses
        /\ \A s : ExitOf(s) \in {"zero", "nonzero"} /\ FixedBy(s) \in {"none", "zero", "nonzero"}
    BY StepFacts DEF Instance, Instances, Steps, ExitOf, FixedBy
  <2>2. \A r : Held(r) \subseteq Instances
    BY DEF Held
  <2>3. CASE Omit \/ Pass
    BY <2>1, <2>3 DEF Omit, Pass, Onward, owned, verdict
  <2>4. CASE StartStep \/ SpawnStep
    BY <2>1, <2>4 DEF StartStep, SpawnStep, InBody, Onward, Stored, verdict
  <2>5. CASE AdoptStep
    BY <2>5 DEF AdoptStep, Onward, Stored, verdict
  <2>6. CASE CloseStep
    BY <2>2, <2>6 DEF CloseStep, Onward, verdict
  <2>7. CASE KillStep
    BY <2>2, <2>7, TableAssumption DEF KillStep, Onward, verdict, Fault
  <2>8. CASE LeaveStep \/ Finish
    BY <2>1, <2>8 DEF LeaveStep, Finish, ToCleanup, owned, Statuses
  <2>9. ASSUME Interrupted PROVE /\ running' \subseteq Instances /\ attempted' \subseteq Instances
                                 /\ held' \subseteq Instances /\ Tried \subseteq Instances
                                 /\ UNCHANGED <<unadopted, kept>>
    BY <2>2, <2>9 DEF Interrupted, Tried
  <2>21. CASE RaiseNoted
    BY <2>1, <2>9, <2>21 DEF RaiseNoted, Onward, Fault, verdict
  <2>10. CASE RaiseInTry
    BY <2>1, <2>9, <2>10 DEF RaiseInTry, ToCleanup, Fault
  <2>11. CASE RaiseBare
    BY <2>9, <2>11 DEF RaiseBare, Torn, Fault
  <2>12. CASE RaiseRescued
    BY <2>12 DEF RaiseRescued, Torn, Fault, OfBase
  <2>13. CASE Keep \/ GiveBack
    BY <2>2, <2>13 DEF Keep, GiveBack, Onward, verdict
  <2>14. ASSUME Refused PROVE /\ running' \subseteq Instances /\ attempted' \subseteq Instances
                              /\ UNCHANGED <<held, unadopted, presumed, kept>>
    BY <2>2, <2>14 DEF Refused
  <2>15. CASE ReleaseNoted
    <3>1. Demoted \in Statuses
      BY DEF Demoted, Statuses
    <3> QED
      BY <2>14, <2>15, <3>1 DEF ReleaseNoted, Onward, Fault
  <2>16. CASE ReleaseRaises
    BY <2>14, <2>16 DEF ReleaseRaises, Torn, Fault
  <2>17. CASE Examine \/ WriteReport
    <3>1. status' \in Statuses /\ at' \in Nat \ {0}
      BY <2>17 DEF Examine, WriteReport, Onward, Statuses
    <3> QED
      BY <2>17, <3>1 DEF Examine, WriteReport, Onward, owned
  <2>19. CASE EntryRaises
    BY <2>19 DEF EntryRaises, Torn, Fault, owned
  <2>20. CASE End
    BY <2>1, <2>20 DEF End, owned
  <2>18. CASE UNCHANGED vars
    BY <2>18 DEF vars
  <2> QED
    BY <2>3, <2>4, <2>5, <2>6, <2>7, <2>8, <2>10, <2>11, <2>12, <2>13, <2>15, <2>16, <2>17, <2>18, <2>19, <2>20,
       <2>21
       DEF Next, Body, Cleanup
<1> QED
  BY <1>1, <1>2, PTL DEF Spec

----------------------------------------------------------------------------
(* In the body, what the lane has tried to give back and still runs is presumed    *)
(* gone.                                                                      *)
OnlyPresumedSurvive ==
  phase = "body" => /\ kept = {} /\ running \cap attempted \subseteq presumed
                    /\ \A x \in attempted : x.since < at

(* A resource that is created is not running any more, but for what was presumed. *)
LEMMA CreatedAfresh ==
  ASSUME IInv, TypeOK, OnlyPresumedSurvive, OneOfEach, StartStep \/ SpawnStep
  PROVE  OneOfEach' /\ OnlyPresumedSurvive'
<1> DEFINE y == Instance(step.res)
<1>1. /\ InBody /\ phase = "body" /\ Creates(step) /\ running' = running \cup {y}
      /\ attempted' = attempted /\ kept' = kept /\ presumed' = presumed
      /\ y.res = step.res /\ y.since = at
  BY DEF StartStep, SpawnStep, InBody, Creates, Instance
<1>2. ASSUME NEW x \in running PROVE x.since < at
  BY <1>1 DEF IInv, PlaceInv, Created
<1>3. ASSUME NEW x \in running, x.res = step.res PROVE x \in presumed
  <2>1. CASE x \in attempted
    BY <1>1, <2>1 DEF OnlyPresumedSurvive
  <2>2. CASE x \notin attempted
    <3>1. x \in running \ (attempted \cup kept)
      BY <1>1, <2>2 DEF OnlyPresumedSurvive
    <3>2. x \in held \cup unadopted
      BY <1>1, <3>1 DEF IInv, BodyInv, Answered
    <3> QED
      BY <1>1, <1>3, <3>1, <3>2, NoneOlder
  <2> QED
    BY <2>1, <2>2
<1>4. \A x \in running : x # y /\ ~(y.since < x.since)
  <2> SUFFICES ASSUME NEW x \in running PROVE x # y /\ ~(y.since < x.since)
    OBVIOUS
  <2>1. x.since \in Nat /\ at \in Nat /\ x.since < at
    BY <1>2, LaneFacts DEF IInv, PlaceInv, Created
  <2> QED
    BY <1>1, <2>1
<1>5. ~(y.since < y.since)
  BY <1>1 DEF IInv
<1>6. y \notin attempted
  BY <1>1, <1>5 DEF OnlyPresumedSurvive
<1> HIDE DEF y
<1>7. OneOfEach'
  BY <1>1, <1>3, <1>4, <1>5 DEF OneOfEach
<1>8. at' = at + 1 /\ at \in Nat /\ \A x \in attempted : x.since < at /\ x.since \in Nat
  BY <1>1 DEF StartStep, SpawnStep, Onward, TypeOK, Instances, OnlyPresumedSurvive
<1> QED
  BY <1>1, <1>6, <1>7, <1>8 DEF OnlyPresumedSurvive

(* No other step adds an instance, or takes the mark off one that is presumed. *)
LEMMA GoneStaysGone ==
  ASSUME OneOfEach, running' \subseteq running, presumed \subseteq presumed'
  PROVE  OneOfEach'
BY DEF OneOfEach

(* What happens in the body.                                                  *)
LEMMA FinishedOrPresumed ==
  ASSUME IInv, TypeOK, OnlyPresumedSurvive, CloseStep \/ KillStep \/ RaiseNoted
  PROVE  OnlyPresumedSurvive' /\ running' \subseteq running /\ presumed \subseteq presumed'
<1>1. PICK tried \in SUBSET Held(step.res) :
        /\ phase = "body" /\ at' = at + 1 /\ attempted' = attempted \cup tried /\ kept' = kept
        /\ \/ running' = running \ tried /\ presumed \subseteq presumed'
           \/ running' \subseteq running /\ presumed' = presumed \cup tried
  <2>1. CASE CloseStep \/ KillStep
    BY <2>1 DEF CloseStep, KillStep, InBody, Onward
  <2>2. CASE RaiseNoted
    <3>1. InBody /\ Interrupted /\ Onward /\ presumed' = presumed \cup Tried
      BY <2>2 DEF RaiseNoted
    <3>2. Tried \in SUBSET Held(step.res) /\ running' \subseteq running
          /\ attempted' = attempted \cup Tried /\ kept' = kept
      BY <3>1, PhaseFacts
    <3> QED
      BY <3>1, <3>2 DEF InBody, Onward
  <2> QED
    BY <2>1, <2>2
<1>2. \A x \in tried : x.since < at
  BY <1>1 DEF Held, IInv, PlaceInv, Created
<1>3. at \in Nat /\ \A x \in attempted \cup tried : x.since < at /\ x.since \in Nat
  BY <1>1, <1>2 DEF Held, OnlyPresumedSurvive, TypeOK, Instances
<1> QED
  BY <1>1, <1>3 DEF OnlyPresumedSurvive

(* No instance of a resource is started beside a running one, through restarts,    *)
(* adoptions and failed calls as well, unless the older one was killed without    *)
(* a look or a phase only noted that it would not close.                        *)
THEOREM BesidePresumedOnly == Spec => []OneOfEach
<1>1. Init => OneOfEach /\ OnlyPresumedSurvive
  BY DEF Init, OneOfEach, OnlyPresumedSurvive
<1>2. IInv /\ TypeOK /\ OneOfEach /\ OnlyPresumedSurvive /\ [Next]_vars => OneOfEach' /\ OnlyPresumedSurvive'
  <2> SUFFICES ASSUME IInv, TypeOK, OneOfEach, OnlyPresumedSurvive, [Next]_vars
               PROVE  OneOfEach' /\ OnlyPresumedSurvive'
    OBVIOUS
  <2>1. CASE StartStep \/ SpawnStep
    BY <2>1, CreatedAfresh
  <2>2. CASE CloseStep \/ KillStep \/ RaiseNoted
    BY <2>2, FinishedOrPresumed, GoneStaysGone
  <2>3. ASSUME running' = running, attempted' = attempted, kept' = kept, presumed' = presumed,
               phase' = phase, phase = "body" => at' \in Nat /\ at <= at'
        PROVE  OneOfEach' /\ OnlyPresumedSurvive'
    <3>1. OneOfEach'
      BY <2>3, GoneStaysGone
    <3>2. ASSUME phase = "body", NEW x \in attempted PROVE x.since < at'
      <4>1. x.since \in Nat /\ at \in Nat /\ x.since < at
        BY <3>2 DEF TypeOK, Instances, OnlyPresumedSurvive
      <4> QED
        BY <2>3, <3>2, <4>1
    <3> QED
      BY <2>3, <3>1, <3>2 DEF OnlyPresumedSurvive
  <2>4. ASSUME running' \subseteq running, presumed' = presumed, phase' # "body"
        PROVE  OneOfEach' /\ OnlyPresumedSurvive'
    BY <2>4, GoneStaysGone DEF OnlyPresumedSurvive
  <2>5. CASE Omit
    <3>1. step.skip \in Nat /\ at \in Nat
      BY <2>5, StepFacts DEF Omit, Steps, IInv
    <3> QED
      BY <2>3, <2>5, <3>1 DEF Omit, owned
  <2>6. CASE Pass \/ AdoptStep
    BY <2>3, <2>6 DEF Pass, AdoptStep, Onward, owned, IInv
  <2>7. CASE LeaveStep \/ Finish \/ RaiseInTry \/ RaiseBare \/ RaiseRescued
    <3>1. running' \subseteq running /\ presumed' = presumed
      BY <2>7 DEF LeaveStep, Finish, RaiseInTry, RaiseBare, RaiseRescued, Interrupted, owned
    <3>2. phase' # "body"
      BY <2>7 DEF LeaveStep, Finish, RaiseInTry, RaiseBare, RaiseRescued, ToCleanup, Torn
    <3> QED
      BY <2>4, <3>1, <3>2
  <2>8. CASE Cleanup
    <3>1. running' \subseteq running /\ presumed' = presumed
      BY <2>8 DEF Cleanup, Keep, GiveBack, ReleaseNoted, ReleaseRaises, Refused, Examine, WriteReport,
                  EntryRaises, End, owned
    <3>2. phase' # "body"
      BY <2>8 DEF Cleanup, Keep, GiveBack, ReleaseNoted, ReleaseRaises, Refused, Due, Examine,
                  WriteReport, EntryRaises, End, InCleanup, Onward, Torn
    <3> QED
      BY <2>4, <3>1, <3>2
  <2>9. CASE UNCHANGED vars
    BY <2>9 DEF vars, OneOfEach, OnlyPresumedSurvive
  <2> QED
    BY <2>1, <2>2, <2>5, <2>6, <2>7, <2>8, <2>9 DEF Next, Body
<1> QED
  BY <1>1, <1>2, Inductive, TypeCorrect, PTL DEF Spec

----------------------------------------------------------------------------
(* The body gives nothing of the base back; in the teardown, what the lane still  *)
(* answers for has all of its entries ahead.                                 *)
BaseUntouched == phase = "body" => \A a \in attempted : a.res \notin lane.base
AllAhead ==
  phase = "cleanup" =>
    \A x \in running \ Settled : \A k \in DOMAIN lane.cleanup :
      (Releases(lane.cleanup[k]) /\ lane.cleanup[k].res = x.res) => at <= k
BaseInv == BaseUntouched /\ AllAhead /\ VolumeLast

(* A step of the body that finishes something does not finish the base.          *)
LEMMA BaseNotFinished ==
  ASSUME IInv, InBody
  PROVE  \A h \in Tried : h.res \notin lane.base
<1>1. Finishes(step) => step.res \notin lane.base
  BY BaseAssumption DEF BaseLast, IInv, InBody, step, lane
<1> QED
  BY <1>1 DEF Tried, Held, Finishes

(* The body, and the ways out of it.                                          *)
LEMMA BodyBase ==
  ASSUME IInv, BaseInv, Body
  PROVE  BaseInv'
<1>1. phase = "body" /\ lane' = lane /\ \A a \in attempted : a.res \notin lane.base
  BY DEF Body, Omit, Pass, StartStep, SpawnStep, AdoptStep, CloseStep, KillStep, LeaveStep, Finish,
         RaiseNoted, RaiseInTry, RaiseBare, RaiseRescued, InBody, Onward, ToCleanup, lane, BaseInv, BaseUntouched
<1>2. ASSUME \A a \in attempted' : a.res \notin lane.base, phase' # "cleanup" \/ at' = 1
      PROVE  BaseInv'
  <2>1. AllAhead'
    BY <1>1, <1>2, LaneFacts DEF AllAhead, IInv
  <2> QED
    BY <1>1, <1>2, <2>1 DEF BaseInv, BaseUntouched, VolumeLast
<1>3. CASE Omit \/ Pass \/ StartStep \/ SpawnStep \/ AdoptStep
  BY <1>1, <1>2, <1>3 DEF Omit, Pass, StartStep, SpawnStep, AdoptStep, Onward, owned
<1>4. CASE CloseStep \/ KillStep
  <2>1. InBody /\ attempted' = attempted \cup Tried /\ phase' = phase
    BY <1>4 DEF CloseStep, KillStep, Tried, Onward
  <2> QED
    BY <1>1, <1>2, <2>1, BaseNotFinished
<1>5. CASE LeaveStep \/ Finish
  BY <1>1, <1>2, <1>5 DEF LeaveStep, Finish, ToCleanup, owned
<1>8. CASE RaiseNoted
  <2>1. InBody /\ attempted' = attempted \cup Tried /\ phase' = phase
    BY <1>8 DEF RaiseNoted, Interrupted, Onward
  <2> QED
    BY <1>1, <1>2, <2>1, BaseNotFinished
<1>6. CASE RaiseInTry \/ RaiseBare
  <2>1. InBody /\ attempted' = attempted \cup Tried
    BY <1>6 DEF RaiseInTry, RaiseBare, Interrupted
  <2>2. phase' # "cleanup" \/ at' = 1
    BY <1>6 DEF RaiseInTry, RaiseBare, ToCleanup, Torn
  <2> QED
    BY <1>1, <1>2, <2>1, <2>2, BaseNotFinished
<1>7. CASE RaiseRescued
  <2>1. InBody /\ step.under = "rescue" /\ running' \subseteq running /\ phase' = "ended"
    BY <1>7 DEF RaiseRescued, Torn
  <2>2. ASSUME NEW x \in running PROVE x.res \in lane.base
    <3>1. /\ x.since \in DOMAIN body /\ x.since < at /\ at \in DOMAIN body
          /\ Creates(body[x.since]) /\ body[x.since].res = x.res
      BY <1>1, <2>1 DEF IInv, PlaceInv, Created, InBody, body
    <3>2. body[at].under = "rescue"
      BY <2>1 DEF step, body
    <3> QED
      BY <3>1, <3>2, BaseAssumption DEF BaseLast, IInv, body, lane
  <2> QED
    BY <1>1, <2>1, <2>2 DEF BaseInv, BaseUntouched, AllAhead, VolumeLast
<1> QED
  BY <1>3, <1>4, <1>5, <1>6, <1>7, <1>8 DEF Body

(* An entry of the teardown: when it releases the base, all else has had its turn. *)
LEMMA EntryBase ==
  ASSUME IInv, BaseInv, InCleanup, name' = name, running' \subseteq running, held' = held,
         unadopted' = unadopted, attempted \subseteq attempted', kept \subseteq kept',
         \/ attempted' = attempted
         \/ entry.op = "release" /\ attempted' = attempted \cup Held(entry.res),
         \/ Onward
            /\ (entry.op = "release" => running' \cap Held(entry.res) \subseteq attempted' \cup kept')
         \/ phase' = "ended"
  PROVE  BaseInv'
<1>1. /\ phase = "cleanup" /\ lane' = lane /\ at \in DOMAIN lane.cleanup /\ entry = lane.cleanup[at]
      /\ phase' # "body" /\ Settled \subseteq Settled' /\ at \in Nat /\ DOMAIN lane.cleanup \subseteq Nat
  BY LaneFacts DEF InCleanup, lane, entry, Onward, Settled, IInv
<1>2. ASSUME NEW x \in running \ Settled
      PROVE  /\ x \in held
             /\ \A k \in DOMAIN lane.cleanup :
                  (Releases(lane.cleanup[k]) /\ lane.cleanup[k].res = x.res) => at <= k
             /\ \E k \in DOMAIN lane.cleanup : Releases(lane.cleanup[k]) /\ lane.cleanup[k].res = x.res
  BY <1>1 DEF IInv, CleanupInv, ToCome, BaseInv, AllAhead, Releases
<1>3. AllAhead'
  <2> SUFFICES ASSUME phase' = "cleanup", NEW x \in running' \ Settled', NEW k \in DOMAIN lane.cleanup,
                      Releases(lane.cleanup[k]), lane.cleanup[k].res = x.res
               PROVE  at' <= k
    BY <1>1 DEF AllAhead
  <2>1. x \in running \ Settled /\ x \notin attempted' \cup kept'
    BY <1>1 DEF Settled
  <2>2. x \in held /\ at <= k
    BY <1>2, <2>1
  <2>3. k # at
    BY <1>1, <2>1, <2>2 DEF Releases, Held
  <2> QED
    BY <1>1, <2>2, <2>3 DEF Onward
<1>4. VolumeLast'
  <2> SUFFICES ASSUME NEW v \in attempted', v.res \in lane.base,
                      NEW i \in running', i.res \notin lane.base, i \notin Settled
               PROVE  FALSE
    BY <1>1 DEF VolumeLast
  <2>1. v \notin attempted
    BY DEF BaseInv, VolumeLast
  <2>2. entry.op = "release" /\ entry.res = v.res
    BY <2>1 DEF Held
  <2>3. PICK j \in DOMAIN lane.cleanup : Releases(lane.cleanup[j]) /\ lane.cleanup[j].res = i.res
    BY <1>2
  <2>4. at <= j
    BY <1>2, <2>3
  <2>5. j < at
    BY <1>1, <2>2, <2>3, BaseAssumption DEF BaseLast, IInv, lane, Releases
  <2> QED
    BY <1>1, <2>4, <2>5
<1> QED
  BY <1>1, <1>3, <1>4 DEF BaseInv, BaseUntouched

(* The volume a run works on is given back only when the lane has tried to give     *)
(* back, or was asked to keep, everything it knows of that lives on it.            *)
THEOREM VolumeIsLast == Spec => []VolumeLast
<1>1. Init => BaseInv
  BY DEF Init, BaseInv, BaseUntouched, AllAhead, VolumeLast
<1>2. IInv /\ BaseInv /\ [Next]_vars => BaseInv'
  <2> SUFFICES ASSUME IInv, BaseInv, [Next]_vars PROVE BaseInv'
    OBVIOUS
  <2>1. CASE Body
    BY <2>1, BodyBase
  <2>2. CASE Keep \/ GiveBack
    BY <2>2, EntryBase DEF Keep, GiveBack, Due, Onward
  <2>3. CASE ReleaseNoted \/ ReleaseRaises
    <3>1. running' \subseteq running
      BY <2>3 DEF ReleaseNoted, ReleaseRaises, Refused
    <3> QED
      BY <2>3, <3>1, EntryBase DEF ReleaseNoted, ReleaseRaises, Refused, Due, Onward, Torn
  <2>4. CASE Examine \/ WriteReport \/ EntryRaises
    BY <2>4, EntryBase DEF Examine, WriteReport, EntryRaises, owned, Onward, Torn
  <2>5. CASE End \/ UNCHANGED vars
    <3>1. lane' = lane /\ UNCHANGED owned /\ (phase' = "ended" \/ UNCHANGED <<phase, at>>)
      BY <2>5 DEF End, vars, owned, lane
    <3> QED
      BY <3>1 DEF owned, BaseInv, BaseUntouched, AllAhead, VolumeLast, Settled
  <2> QED
    BY <2>1, <2>2, <2>3, <2>4, <2>5 DEF Next, Cleanup
<1>3. BaseInv => VolumeLast
  BY DEF BaseInv
<1> QED
  BY <1>1, <1>2, <1>3, Inductive, PTL DEF Spec

----------------------------------------------------------------------------
(* The verdict is open in the body.  In the teardown a fixed code is that of the   *)
(* status, or worse; the report, once written, holds the status for good where    *)
(* the code is still open.                                                    *)
Written == \E k \in DOMAIN lane.cleanup : k < at /\ lane.cleanup[k].op = "report"
OpenVerdict == phase = "body" => status = "running" /\ exit = "none" /\ written = "none"
FixedCode ==
  (phase = "cleanup" /\ lane.code = "returned") =>
    /\ exit # "none"
    /\ (status = "passed" \/ written = "passed") => exit = "zero"
OpenCode ==
  (phase = "cleanup" /\ lane.code = "reported") =>
    /\ exit = "none" \/ (exit = "nonzero" /\ status # "passed")
    /\ Written => written = status
    /\ ~Written => written = "none"
VerdictInv == OpenVerdict /\ FixedCode /\ OpenCode /\ VerdictsAgree

(* The ways from the body to the teardown.                                     *)
LEMMA VerdictTaken ==
  ASSUME IInv, VerdictInv, phase = "body", ToCleanup, written' = written,
         \/ exit' = FixedBy(status')
         \/ status' = status /\ exit' = "nonzero"
  PROVE  VerdictInv'
<1>1. /\ phase' = "cleanup" /\ at' = 1 /\ lane' = lane /\ written' = "none" /\ status = "running"
  BY DEF ToCleanup, lane, VerdictInv, OpenVerdict
<1>2. ~Written'
  BY <1>1, LaneFacts DEF Written, IInv
<1>3. FixedCode'
  BY <1>1 DEF FixedCode, FixedBy, ExitOf
<1>4. OpenCode'
  BY <1>1, <1>2 DEF OpenCode, FixedBy
<1> QED
  BY <1>1, <1>3, <1>4 DEF VerdictInv, OpenVerdict, VerdictsAgree

(* An entry that only lets the status get worse.                               *)
LEMMA EntryVerdict ==
  ASSUME IInv, VerdictInv, InCleanup, Onward, exit' = exit, written' = written,
         status' = status \/ (status' = "failed" /\ Judges(entry)), entry.op # "report"
  PROVE  VerdictInv'
<1>1. /\ phase = "cleanup" /\ phase' = "cleanup" /\ at' = at + 1 /\ lane' = lane
      /\ at \in DOMAIN lane.cleanup /\ entry = lane.cleanup[at] /\ at \in Nat
      /\ DOMAIN lane.cleanup \subseteq Nat
  BY LaneFacts DEF InCleanup, Onward, lane, entry, IInv
<1>2. FixedCode'
  BY <1>1 DEF VerdictInv, FixedCode
<1>3. Written' <=> Written
  BY <1>1 DEF Written
<1>4. (lane.code = "reported" /\ Written) => ~Judges(entry)
  BY <1>1, ReportAssumption DEF Written, ReportLast, IInv, lane
<1>5. OpenCode'
  BY <1>1, <1>3, <1>4 DEF VerdictInv, OpenCode
<1> QED
  BY <1>1, <1>2, <1>5 DEF VerdictInv, OpenVerdict, VerdictsAgree

(* The report is written.                                                     *)
LEMMA ReportVerdict ==
  ASSUME IInv, VerdictInv, WriteReport
  PROVE  VerdictInv'
<1>1. /\ phase = "cleanup" /\ phase' = "cleanup" /\ at' = at + 1 /\ lane' = lane
      /\ at \in DOMAIN lane.cleanup /\ lane.cleanup[at].op = "report" /\ at \in Nat
      /\ written' = status /\ status' = status /\ exit' = exit
  BY DEF WriteReport, InCleanup, Onward, lane, entry, IInv
<1>2. Written'
  BY <1>1 DEF Written
<1>3. FixedCode' /\ OpenCode'
  BY <1>1, <1>2 DEF VerdictInv, FixedCode, OpenCode
<1> QED
  BY <1>1, <1>3 DEF VerdictInv, OpenVerdict, VerdictsAgree

(* The end of the teardown.                                                   *)
LEMMA EndVerdict ==
  ASSUME IInv, VerdictInv, End
  PROVE  VerdictInv'
<1>1. /\ phase = "cleanup" /\ phase' = "ended" /\ lane' = lane /\ at > Len(lane.cleanup)
      /\ exit' = (IF exit = "none" THEN ExitOf(status) ELSE exit)
      /\ written' = written /\ status' = status
      /\ lane.code \in {"reported", "returned"}
  BY StepFacts DEF End, lane, IInv
<1>2. CASE lane.code = "returned"
  BY <1>1, <1>2 DEF VerdictInv, FixedCode, OpenVerdict, OpenCode, VerdictsAgree
<1>3. CASE lane.code = "reported"
  <2>1. PICK k \in DOMAIN lane.cleanup : lane.cleanup[k].op = "report"
    BY <1>3, ReportAssumption DEF ReportLast, IInv, lane
  <2>2. Written
    BY <1>1, <2>1, LaneFacts DEF Written, IInv
  <2>3. written = status
    BY <1>1, <1>3, <2>2 DEF VerdictInv, OpenCode
  <2> QED
    BY <1>1, <1>3, <2>3 DEF VerdictInv, FixedCode, OpenVerdict, OpenCode, VerdictsAgree, ExitOf
<1> QED
  BY <1>1, <1>2, <1>3

(* The report on disk and the exit code tell the same story, whatever fails on the *)
(* way; where the code is fixed before the teardown, a passed report still means  *)
(* zero.                                                                      *)
THEOREM ReportAndCodeAgree == Spec => []VerdictsAgree
<1>1. Init => VerdictInv
  BY DEF Init, VerdictInv, OpenVerdict, FixedCode, OpenCode, VerdictsAgree
<1>2. IInv /\ VerdictInv /\ [Next]_vars => VerdictInv'
  <2> SUFFICES ASSUME IInv, VerdictInv, [Next]_vars PROVE VerdictInv'
    OBVIOUS
  <2>1. CASE UNCHANGED <<name, phase, status, exit, written, torn>> /\ phase = "body"
    BY <2>1 DEF VerdictInv, OpenVerdict, FixedCode, OpenCode, VerdictsAgree
  <2>2. CASE Omit \/ Pass \/ StartStep \/ SpawnStep \/ AdoptStep \/ CloseStep \/ KillStep \/ RaiseNoted
    <3>1. phase = "body" /\ UNCHANGED <<name, phase, status, exit, written, torn>>
      BY <2>2 DEF Omit, Pass, StartStep, SpawnStep, AdoptStep, CloseStep, KillStep, RaiseNoted, InBody,
                  Onward, verdict
    <3> QED
      BY <2>1, <3>1
  <2>3. CASE LeaveStep \/ Finish \/ RaiseInTry
    <3>1. phase = "body" /\ ToCleanup /\ written' = written
          /\ \/ exit' = FixedBy(status')
             \/ status' = status /\ exit' = "nonzero"
      BY <2>3 DEF LeaveStep, Finish, RaiseInTry, InBody
    <3> QED
      BY <3>1, VerdictTaken
  <2>4. CASE RaiseBare \/ RaiseRescued \/ ReleaseRaises \/ EntryRaises
    <3>1. phase' = "ended" /\ torn' = TRUE
      BY <2>4 DEF RaiseBare, RaiseRescued, ReleaseRaises, EntryRaises, Torn
    <3> QED
      BY <3>1 DEF VerdictInv, OpenVerdict, FixedCode, OpenCode, VerdictsAgree
  <2>5. CASE Keep \/ GiveBack
    BY <2>5, EntryVerdict DEF Keep, GiveBack, Due, verdict
  <2>6. CASE ReleaseNoted
    <3>1. status' = status \/ (status' = "failed" /\ Judges(entry))
      BY <2>6 DEF ReleaseNoted, Demoted, Judges, Releases, Refused, Due
    <3> QED
      BY <2>6, <3>1, EntryVerdict DEF ReleaseNoted, Refused, Due
  <2>7. CASE Examine
    <3>1. status' = status \/ (status' = "failed" /\ Judges(entry))
      BY <2>7 DEF Examine, Judges
    <3> QED
      BY <2>7, <3>1, EntryVerdict DEF Examine
  <2>8. CASE WriteReport
    BY <2>8, ReportVerdict
  <2>9. CASE End
    BY <2>9, EndVerdict
  <2>10. CASE UNCHANGED vars
    <3>1. lane' = lane
      BY <2>10 DEF vars, lane
    <3> QED
      BY <2>10, <3>1 DEF vars, VerdictInv, OpenVerdict, FixedCode, OpenCode, Written, VerdictsAgree
  <2> QED
    BY <2>2, <2>3, <2>4, <2>5, <2>6, <2>7, <2>8, <2>9, <2>10 DEF Next, Body, Cleanup
<1>3. VerdictInv => VerdictsAgree
  BY DEF VerdictInv
<1> QED
  BY <1>1, <1>2, <1>3, Inductive, PTL DEF Spec
====
