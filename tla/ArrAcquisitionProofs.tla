---- MODULE ArrAcquisitionProofs ----
(***************************************************************************)
(* An acquisition that passes leaves no more in eMule than the transfer it    *)
(* waited for and one per request it gave up on, for any releases and any     *)
(* number of rounds.                                                       *)
(***************************************************************************)
EXTENDS ArrAcquisition, FiniteSetTheorems, TLAPS

USE ArrAssumption

(* What eMule has or will have, one token each: a listed transfer, and each of   *)
(* the accepted requests that have not turned into one.                       *)
Tokens == {t \in Releases \X Nat :
             (t[2] = 0 /\ t[1] \in listed) \/ (t[2] # 0 /\ t[2] <= coming[t[1]])}

(* The token that the script itself will account for: the transfer of the request *)
(* it counts on, until that transfer is seen to be gone.                       *)
Owed == IF \/ pc \in {"confirm", "confirmAdd", "await", "resume", "stop", "wait"}
           \/ pc = "passed" /\ proof = "complete"
           \/ pc \in {"delete", "absent"} /\ hash \in listed
        THEN 1 ELSE 0
Counted(n) == IsFiniteSet(Tokens) /\ Cardinality(Tokens) <= n
Accounted == pc # "failed" => Counted(strays + Owed)
Modes == pc = "wait" => proof = "complete"
IInv == TypeOK /\ Modes /\ Accounted

----------------------------------------------------------------------------
(* A finite set gains at most an element.                                          *)
LEMMA OneMore ==
  ASSUME NEW S, NEW x, IsFiniteSet(S)
  PROVE  /\ IsFiniteSet(S \cup {x}) /\ Cardinality(S \cup {x}) \in Nat /\ Cardinality(S) \in Nat
         /\ Cardinality(S \cup {x}) <= Cardinality(S) + 1
<1>1. IsFiniteSet(S \cup {x}) /\ Cardinality(S \cup {x}) \in Nat /\ Cardinality(S) \in Nat
  BY FS_AddElement, FS_CardinalityType
<1>2. CASE x \in S
  <2>1. Cardinality(S \cup {x}) = Cardinality(S)
    BY <1>2, FS_AddElement
  <2> QED
    BY <1>1, <2>1
<1>3. CASE x \notin S
  <2>1. Cardinality(S \cup {x}) = Cardinality(S) + 1
    BY <1>3, FS_AddElement
  <2> QED
    BY <1>1, <2>1
<1> QED
  BY <1>2, <1>3
(* Taking away an element of a finite set.                                         *)
LEMMA OneLess ==
  ASSUME NEW S, NEW x \in S, IsFiniteSet(S)
  PROVE  /\ IsFiniteSet(S \ {x}) /\ Cardinality(S \ {x}) \in Nat /\ Cardinality(S) \in Nat
         /\ Cardinality(S \ {x}) = Cardinality(S) - 1
BY FS_RemoveElement, FS_CardinalityType

(* One more request is accepted: one more token.                              *)
LEMMA AcceptedToken ==
  ASSUME TypeOK, NEW r \in Releases, Accept(r), NEW n \in Nat, Counted(n)
  PROVE  IsFiniteSet(Tokens') /\ Cardinality(Tokens') <= n + 1
<1>1. coming' = [coming EXCEPT ![r] = @ + 1] /\ listed' = listed /\ coming[r] \in Nat
      /\ coming \in [Releases -> Nat]
  BY DEF Accept, TypeOK
<1>2. Tokens' \subseteq Tokens \cup {<<r, coming[r] + 1>>}
  <2>1. ASSUME NEW t \in Tokens', t \notin Tokens
        PROVE  t = <<r, coming[r] + 1>>
    <3>1. t \in Releases \X Nat /\ t = <<t[1], t[2]>> /\ t[1] \in Releases /\ t[2] \in Nat
      BY <2>1 DEF Tokens
    <3>2. t[2] # 0 /\ t[2] <= coming'[t[1]] /\ ~(t[2] <= coming[t[1]])
      BY <1>1, <2>1, <3>1 DEF Tokens
    <3>3. t[1] = r /\ t[2] = coming[r] + 1
      BY <1>1, <3>1, <3>2
    <3> QED
      BY <3>1, <3>3
  <2> QED
    BY <2>1
<1>3. /\ IsFiniteSet(Tokens \cup {<<r, coming[r] + 1>>})
      /\ Cardinality(Tokens \cup {<<r, coming[r] + 1>>}) <= n + 1
  <2>1. IsFiniteSet(Tokens) /\ Cardinality(Tokens) \in Nat /\ Cardinality(Tokens) <= n
    BY FS_CardinalityType DEF Counted
  <2> DEFINE x == <<r, coming[r] + 1>>
  <2> HIDE DEF x
  <2>2. /\ IsFiniteSet(Tokens \cup {x}) /\ Cardinality(Tokens \cup {x}) \in Nat
        /\ Cardinality(Tokens \cup {x}) <= Cardinality(Tokens) + 1
    BY <2>1, OneMore
  <2>3. Cardinality(Tokens \cup {x}) <= n + 1
    BY <2>1, <2>2
  <2> QED
    BY <2>2, <2>3 DEF x
<1>4. /\ IsFiniteSet(Tokens') /\ Cardinality(Tokens') \in Nat
      /\ Cardinality(Tokens') <= Cardinality(Tokens \cup {<<r, coming[r] + 1>>})
      /\ Cardinality(Tokens \cup {<<r, coming[r] + 1>>}) \in Nat
  BY <1>2, <1>3, FS_Subset, FS_CardinalityType
<1> QED
  BY <1>3, <1>4

(* A transfer appears in the place of its request.                            *)
LEMMA ArrivedToken ==
  ASSUME TypeOK, NEW r \in Releases, Arrive(r), NEW n \in Nat, Counted(n)
  PROVE  IsFiniteSet(Tokens') /\ Cardinality(Tokens') <= n
<1>1. coming' = [coming EXCEPT ![r] = @ - 1] /\ listed' = listed \cup {r} /\ coming[r] \in Nat
      /\ coming[r] > 0 /\ coming \in [Releases -> Nat]
  BY DEF Arrive, TypeOK
<1> DEFINE Rest == Tokens \ {<<r, coming[r]>>}
<1>2. Tokens' \subseteq Rest \cup {<<r, 0>>}
  <2>1. ASSUME NEW t \in Tokens', t # <<r, 0>>
        PROVE  t \in Tokens /\ t # <<r, coming[r]>>
    <3>1. t \in Releases \X Nat /\ t = <<t[1], t[2]>> /\ t[1] \in Releases /\ t[2] \in Nat
      BY <2>1 DEF Tokens
    <3>2. CASE t[2] = 0
      <4>1. t[1] \in listed'
        BY <2>1, <3>2 DEF Tokens
      <4>2. t[1] # r
        BY <2>1, <3>1, <3>2
      <4>3. t[1] \in listed
        BY <1>1, <4>1, <4>2
      <4> QED
        BY <1>1, <3>1, <3>2, <4>2, <4>3 DEF Tokens
    <3>3. CASE t[2] # 0
      <4>1. t[2] <= coming'[t[1]]
        BY <2>1, <3>3 DEF Tokens
      <4>2. t[2] <= coming[t[1]] /\ (t[1] = r => t[2] # coming[r])
        BY <1>1, <3>1, <4>1
      <4> QED
        BY <3>1, <3>3, <4>2 DEF Tokens
    <3> QED
      BY <3>2, <3>3
  <2> QED
    BY <2>1
<1>3. <<r, coming[r]>> \in Tokens
  BY <1>1 DEF Tokens
<1>4. IsFiniteSet(Tokens) /\ Cardinality(Tokens) \in Nat /\ Cardinality(Tokens) <= n
  BY FS_CardinalityType DEF Counted
<1>5. IsFiniteSet(Rest) /\ Cardinality(Rest) = Cardinality(Tokens) - 1
  BY <1>3, <1>4, OneLess
<1>6. IsFiniteSet(Rest \cup {<<r, 0>>}) /\ Cardinality(Rest \cup {<<r, 0>>}) <= Cardinality(Tokens)
      /\ Cardinality(Rest \cup {<<r, 0>>}) \in Nat
  <2> DEFINE x == <<r, 0>>
  <2> HIDE DEF Rest, x
  <2>1. /\ IsFiniteSet(Rest \cup {x}) /\ Cardinality(Rest \cup {x}) \in Nat /\ Cardinality(Rest) \in Nat
        /\ Cardinality(Rest \cup {x}) <= Cardinality(Rest) + 1
    BY <1>5, OneMore
  <2>2. Cardinality(Rest \cup {x}) <= Cardinality(Tokens)
    BY <1>4, <1>5, <2>1
  <2> QED
    BY <2>1, <2>2 DEF x
<1>7. IsFiniteSet(Tokens') /\ Cardinality(Tokens') <= Cardinality(Rest \cup {<<r, 0>>})
      /\ Cardinality(Tokens') \in Nat
  <2> HIDE DEF Rest
  <2> QED
    BY <1>2, <1>6, FS_Subset, FS_CardinalityType
<1> QED
  BY <1>4, <1>6, <1>7

(* A transfer goes.                                                          *)
LEMMA DroppedToken ==
  ASSUME NEW r \in Releases, r \in listed, listed' = listed \ {r}, coming' = coming,
         NEW n \in Nat, Counted(n)
  PROVE  IsFiniteSet(Tokens') /\ Cardinality(Tokens') <= n - 1
<1>1. Tokens' = Tokens \ {<<r, 0>>} /\ <<r, 0>> \in Tokens
  <2>1. ASSUME NEW t \in Releases \X Nat
        PROVE  t \in Tokens' <=> t \in Tokens /\ t # <<r, 0>>
    <3>1. t = <<t[1], t[2]>> /\ t[1] \in Releases /\ t[2] \in Nat
      OBVIOUS
    <3>2. t = <<r, 0>> <=> t[1] = r /\ t[2] = 0
      BY <3>1
    <3> QED
      BY <3>2 DEF Tokens
  <2>2. Tokens \subseteq Releases \X Nat /\ Tokens' \subseteq Releases \X Nat
    BY DEF Tokens
  <2>3. <<r, 0>> \in Tokens
    BY DEF Tokens
  <2> QED
    BY <2>1, <2>2, <2>3
<1>2. IsFiniteSet(Tokens) /\ Cardinality(Tokens) \in Nat /\ Cardinality(Tokens) <= n
  BY FS_CardinalityType DEF Counted
<1> QED
  BY <1>1, <1>2, OneLess

(* Nothing appears or goes.                                                   *)
LEMMA SameTokens ==
  ASSUME listed' = listed, coming' = coming, NEW n \in Nat, Counted(n), NEW m \in Nat, n <= m
  PROVE  IsFiniteSet(Tokens') /\ Cardinality(Tokens') <= m
<1>1. Tokens' = Tokens
  BY DEF Tokens
<1>2. Cardinality(Tokens) \in Nat
  BY FS_CardinalityType DEF Counted
<1> QED
  BY <1>1, <1>2 DEF Counted

(* What is left in eMule, a release counted once, is no more than the tokens.     *)
LEMMA RemainingIsCounted ==
  ASSUME TypeOK, NEW n \in Nat, Counted(n)
  PROVE  Cardinality(Remaining) <= n
<1> DEFINE f == [r \in Remaining |-> IF r \in listed THEN <<r, 0>> ELSE <<r, 1>>]
<1>1. ASSUME NEW r \in Remaining
      PROVE  f[r] \in Tokens /\ f[r][1] = r
  <2>1. r \in Releases /\ (r \in listed \/ coming[r] > 0) /\ coming[r] \in Nat
    BY DEF Remaining, TypeOK
  <2>2. CASE r \in listed
    BY <2>1, <2>2 DEF Tokens
  <2>3. CASE r \notin listed
    <3>1. 1 <= coming[r]
      BY <2>1, <2>3
    <3>2. f[r] = <<r, 1>> /\ <<r, 1>> \in Releases \X Nat
      BY <2>1, <2>3
    <3> QED
      BY <3>1, <3>2 DEF Tokens
  <2> QED
    BY <2>2, <2>3
<1>2. f \in [Remaining -> Tokens]
  BY <1>1
<1>3. \A r, s \in Remaining : f[r] = f[s] => r = s
  <2> HIDE DEF f
  <2> QED
    BY <1>1
<1>4. f \in Injection(Remaining, Tokens)
  <2> HIDE DEF f
  <2> QED
    BY <1>2, <1>3 DEF Injection, IsInjective
<1>5. IsFiniteSet(Tokens) /\ Cardinality(Tokens) \in Nat /\ Cardinality(Tokens) <= n
  BY FS_CardinalityType DEF Counted
<1>6. IsFiniteSet(Remaining) /\ Cardinality(Remaining) <= Cardinality(Tokens)
  <2> HIDE DEF f
  <2> QED
    BY <1>4, <1>5, FS_Injection
<1>7. Cardinality(Remaining) \in Nat
  BY <1>6, FS_CardinalityType
<1> QED
  BY <1>5, <1>6, <1>7

----------------------------------------------------------------------------
LEMMA InitInv == Init => IInv
<1> SUFFICES ASSUME Init PROVE IInv
  OBVIOUS
<1>1. TypeOK /\ Modes /\ Owed = 0 /\ strays = 0
  BY DEF Init, TypeOK, Modes, Owed
<1>2. Tokens = {}
  BY DEF Init, Tokens
<1>3. Counted(0)
  BY <1>2, FS_EmptySet DEF Counted
<1> QED
  BY <1>1, <1>3 DEF IInv, Accounted

(* A step that keeps or loosens the bound on the tokens keeps the invariant.          *)
LEMMA StillAccounted ==
  ASSUME TypeOK, TypeOK', Accounted, pc # "failed",
         \/ /\ listed' = listed /\ coming' = coming
            /\ strays + Owed <= strays' + Owed'
         \/ \E r \in Releases : Arrive(r) /\ strays + Owed <= strays' + Owed'
         \/ \E r \in Releases : Accept(r) /\ strays + Owed + 1 <= strays' + Owed'
         \/ \E r \in listed : /\ listed' = listed \ {r} /\ coming' = coming
                              /\ strays + Owed <= strays' + Owed' + 1
  PROVE  Accounted'
<1> DEFINE n == strays + Owed
           m == strays' + Owed'
<1>0. (Owed = 0 \/ Owed = 1) /\ (Owed' = 0 \/ Owed' = 1)
  BY DEF Owed
<1>1. n \in Nat /\ m \in Nat /\ Counted(n)
  <2>1. strays \in Nat /\ strays' \in Nat
    BY DEF TypeOK
  <2>2. n \in Nat /\ m \in Nat
    BY <1>0, <2>1
  <2> QED
    BY <2>2 DEF Accounted
<1>2. SUFFICES IsFiniteSet(Tokens') /\ Cardinality(Tokens') <= m
  BY DEF Accounted, Counted
<1> HIDE DEF n, m
<1>3. CASE listed' = listed /\ coming' = coming /\ n <= m
  BY <1>1, <1>3, SameTokens
<1>4. ASSUME NEW r \in Releases, Arrive(r), n <= m
      PROVE  IsFiniteSet(Tokens') /\ Cardinality(Tokens') <= m
  <2>1. IsFiniteSet(Tokens') /\ Cardinality(Tokens') <= n
    BY <1>1, <1>4, ArrivedToken
  <2> QED
    BY <1>1, <1>4, <2>1, FS_CardinalityType
<1>5. ASSUME NEW r \in Releases, Accept(r), n + 1 <= m
      PROVE  IsFiniteSet(Tokens') /\ Cardinality(Tokens') <= m
  <2>1. IsFiniteSet(Tokens') /\ Cardinality(Tokens') <= n + 1
    BY <1>1, <1>5, AcceptedToken
  <2> QED
    BY <1>1, <1>5, <2>1, FS_CardinalityType
<1>6. ASSUME NEW r \in listed, listed' = listed \ {r}, coming' = coming, n <= m + 1
      PROVE  IsFiniteSet(Tokens') /\ Cardinality(Tokens') <= m
  <2>1. r \in Releases
    BY DEF TypeOK
  <2>2. IsFiniteSet(Tokens') /\ Cardinality(Tokens') <= n - 1
    BY <1>1, <1>6, <2>1, DroppedToken
  <2> QED
    BY <1>1, <1>6, <2>2, FS_CardinalityType
<1> QED
  BY <1>3, <1>4, <1>5, <1>6 DEF n, m

(* Every step keeps the types, and only the mode that waits reaches the wait.        *)
LEMMA TypeStep ==
  ASSUME TypeOK, Modes, [Next]_vars
  PROVE  TypeOK' /\ Modes'
<1> USE DEF TypeOK, Modes, script, emule, Goto, Accept, Stray, GivenUp
<1>1. ASSUME NEW r \in Releases, Arrive(r) \/ Complete(r) \/ ClearCompleted(r)
      PROVE  TypeOK' /\ Modes'
  BY <1>1 DEF Arrive, Complete, ClearCompleted
<1>2. ASSUME NEW r \in Releases, Grab(r) \/ GrabRejected(r)
      PROVE  TypeOK' /\ Modes'
  BY <1>2 DEF Grab, GrabRejected
<1>3. ASSUME NEW r \in Releases, GrabTimesOut(r) \/ GrabRepeated(r) \/ GrabBreaks(r)
      PROVE  TypeOK' /\ Modes'
  BY <1>3 DEF GrabTimesOut, GrabRepeated, GrabBreaks
<1>4. ASSUME NEW r \in Releases, Add(r) \/ AddRepeated(r) \/ AddFails(r)
      PROVE  TypeOK' /\ Modes'
  BY <1>4 DEF Add, AddRepeated, AddFails
<1>5. CASE ArrUsable \/ ArrUnusable \/ ArrFinds \/ ArrFindsNothing
  BY <1>5 DEF ArrUsable, ArrUnusable, ArrFinds, ArrFindsNothing
<1>6. CASE Confirm \/ ConfirmLate \/ Await \/ Fallback
  BY <1>6 DEF Confirm, ConfirmLate, KeepMagnet, New, Await, Fallback
<1>7. CASE ProwlarrFinds \/ ProwlarrFindsNothing \/ ConfirmAddLate
  BY <1>7 DEF ProwlarrFinds, ProwlarrFindsNothing, Round, ConfirmAddLate
<1>8. CASE Resume \/ Stop \/ Delete \/ DeletedLater \/ NativeDelete
  BY <1>8 DEF Resume, Stop, Delete, DeletedLater, NativeDelete, MayDelete
<1>9. CASE Absent \/ Completion
  BY <1>9 DEF Absent, AbsentInTime, Completion
<1>10. CASE Errors
  BY <1>10 DEF Errors, Breaks
<1>11. CASE UNCHANGED vars
  BY <1>11 DEF vars
<1> QED
  BY <1>1, <1>2, <1>3, <1>4, <1>5, <1>6, <1>7, <1>8, <1>9, <1>10, <1>11 DEF Next, Requested

(* The bound on the tokens: the request counted on owes one, a request given up      *)
(* raises the strays, and what is seen to be gone is owed no longer.            *)
LEMMA StepInv == IInv /\ [Next]_vars => IInv'
<1> SUFFICES ASSUME IInv, [Next]_vars PROVE IInv'
  OBVIOUS
<1>t. TypeOK' /\ Modes' /\ TypeOK /\ Modes /\ Accounted
  BY TypeStep DEF IInv
<1>s. SUFFICES Accounted'
  BY <1>t DEF IInv
<1>n. strays \in Nat /\ strays' \in Nat /\ listed \subseteq Releases
      /\ proof \in {"handoff", "complete"}
  BY <1>t DEF TypeOK
<1>f. CASE pc' = "failed"
  BY <1>f DEF Accounted
<1>o. /\ (Owed = 0 \/ Owed = 1) /\ (Owed' = 0 \/ Owed' = 1)
      /\ pc \in {"start", "search", "grab", "fallback", "prowlarr", "add"} => Owed = 0
      /\ pc' \in {"start", "search", "grab", "fallback", "prowlarr", "add"} => Owed' = 0
      /\ pc \in {"confirm", "confirmAdd", "await", "resume", "stop", "wait"} => Owed = 1
      /\ pc' \in {"confirm", "confirmAdd", "await", "resume", "stop", "wait"} => Owed' = 1
  BY DEF Owed
<1> USE DEF script, emule, Goto
<1>1. ASSUME NEW r \in Releases, Arrive(r), pc' # "failed" PROVE Accounted'
  <2>1. strays + Owed <= strays' + Owed' /\ pc # "failed"
    BY <1>n, <1>1 DEF Owed, Arrive
  <2> QED
    BY <1>1, <1>t, <2>1, StillAccounted
<1>2. ASSUME NEW r \in Releases, Complete(r), pc' # "failed" PROVE Accounted'
  <2>1. strays + Owed <= strays' + Owed' /\ pc # "failed" /\ listed' = listed /\ coming' = coming
    BY <1>n, <1>2 DEF Owed, Complete
  <2> QED
    BY <1>t, <2>1, StillAccounted
<1>3. ASSUME NEW r \in Releases, ClearCompleted(r), pc' # "failed" PROVE Accounted'
  <2>1. strays + Owed <= strays' + Owed' + 1 /\ pc # "failed" /\ r \in listed
        /\ listed' = listed \ {r} /\ coming' = coming
    BY <1>n, <1>3 DEF Owed, ClearCompleted
  <2> QED
    BY <1>t, <2>1, StillAccounted
<1>4. ASSUME NEW r \in Releases, Grab(r) \/ Add(r), pc' # "failed" PROVE Accounted'
  <2>1. strays + Owed + 1 <= strays' + Owed' /\ pc # "failed" /\ Accept(r)
    BY <1>n, <1>o, <1>4 DEF Grab, Add
  <2> QED
    BY <1>t, <2>1, StillAccounted
<1>5. ASSUME NEW r \in Releases, GrabRepeated(r) \/ AddRepeated(r), pc' # "failed"
      PROVE  Accounted'
  <2>1. strays + Owed + 1 <= strays' + Owed' /\ pc # "failed" /\ Accept(r)
    <3>1. pc \in {"grab", "add"} /\ pc' = pc /\ strays' = strays + 1 /\ Accept(r)
      BY <1>5 DEF GrabRepeated, AddRepeated, Stray
    <3> QED
      BY <1>n, <1>o, <3>1
  <2> QED
    BY <1>t, <2>1, StillAccounted
<1>6. ASSUME NEW r \in Releases, pc' # "failed",
             GrabRejected(r) \/ GrabTimesOut(r) \/ GrabBreaks(r) \/ AddFails(r)
      PROVE  Accounted'
  <2>1. pc \in {"grab", "add"} /\ pc' \in {"grab", "fallback", "prowlarr"} /\ GivenUp(r)
    BY <1>6 DEF GrabRejected, GrabTimesOut, GrabBreaks, AddFails
  <2>2. Owed = 0 /\ Owed' = 0
    BY <2>1, <1>o
  <2>3. CASE Stray(r)
    <3>1. strays + Owed + 1 <= strays' + Owed' /\ pc # "failed" /\ Accept(r)
      BY <1>n, <2>1, <2>2, <2>3 DEF Stray
    <3> QED
      BY <1>t, <3>1, StillAccounted
  <2>4. CASE UNCHANGED <<emule, strays>>
    <3>1. strays + Owed <= strays' + Owed' /\ pc # "failed" /\ listed' = listed /\ coming' = coming
      BY <1>n, <2>1, <2>2, <2>4
    <3> QED
      BY <1>t, <3>1, StillAccounted
  <2> QED
    BY <2>1, <2>3, <2>4 DEF GivenUp
<1>7. CASE (ArrUsable \/ ArrUnusable \/ ArrFinds \/ ArrFindsNothing) /\ pc' # "failed"
  <2>1. strays + Owed <= strays' + Owed' /\ pc # "failed" /\ listed' = listed /\ coming' = coming
    <3>1. pc \in {"start", "search"} /\ pc' \in {"search", "grab", "fallback"}
          /\ UNCHANGED <<emule, strays>>
      BY <1>7 DEF ArrUsable, ArrUnusable, ArrFinds, ArrFindsNothing
    <3> QED
      BY <1>n, <1>o, <3>1
  <2> QED
    BY <1>t, <2>1, StillAccounted
<1>8. CASE (Confirm \/ ConfirmLate \/ Await \/ Fallback) /\ pc' # "failed"
  <2>1. strays + Owed <= strays' + Owed' /\ pc # "failed" /\ listed' = listed /\ coming' = coming
    <3>1. /\ \/ pc \in {"confirm", "confirmAdd", "await"} /\ pc' \in {"await", "resume"}
             \/ pc = "fallback" /\ pc' = "prowlarr"
          /\ UNCHANGED <<emule, strays>>
      BY <1>8 DEF Confirm, ConfirmLate, KeepMagnet, Await, Fallback
    <3> QED
      BY <1>n, <1>o, <3>1
  <2> QED
    BY <1>t, <2>1, StillAccounted
<1>9. CASE (ProwlarrFinds \/ ProwlarrFindsNothing \/ ConfirmAddLate) /\ pc' # "failed"
  <2>1. strays + Owed <= strays' + Owed' /\ pc # "failed" /\ listed' = listed /\ coming' = coming
    <3>1. /\ \/ pc = "prowlarr" /\ pc' \in {"prowlarr", "add"} /\ strays' = strays
             \/ pc = "confirmAdd" /\ pc' = "prowlarr" /\ strays' = strays + 1
          /\ UNCHANGED emule
      BY <1>9 DEF ProwlarrFinds, ProwlarrFindsNothing, Round, ConfirmAddLate
    <3> QED
      BY <1>n, <1>o, <3>1
  <2> QED
    BY <1>t, <2>1, StillAccounted
<1>10. CASE (Resume \/ Stop) /\ pc' # "failed"
  <2>1. strays + Owed <= strays' + Owed' /\ pc # "failed" /\ listed' = listed /\ coming' = coming
    <3>1. CASE Resume
      BY <1>n, <1>o, <3>1 DEF Resume
    <3>2. CASE Stop
      <4>1. Owed' = 1
        BY <3>2 DEF Stop, Owed
      <4> QED
        BY <1>n, <1>o, <3>2, <4>1 DEF Stop
    <3> QED
      BY <1>10, <3>1, <3>2
  <2> QED
    BY <1>t, <2>1, StillAccounted
<1>11. CASE Delete \/ DeletedLater
  <2>1. pc \in {"delete", "absent"} /\ pc' = "absent" /\ coming' = coming /\ strays' = strays
        /\ hash' = hash /\ listed' \in {listed, listed \ {hash}}
    BY <1>11 DEF Delete, DeletedLater, MayDelete
  <2>2. CASE listed' = listed
    <3>1. strays + Owed <= strays' + Owed'
      BY <1>n, <2>1, <2>2 DEF Owed
    <3> QED
      BY <1>t, <2>1, <2>2, <3>1, StillAccounted
  <2>3. CASE hash \in listed /\ listed' = listed \ {hash}
    <3>1. strays + Owed <= strays' + Owed' + 1
      BY <1>n, <2>1, <2>3 DEF Owed
    <3> QED
      BY <1>t, <2>1, <2>3, <3>1, StillAccounted
  <2> QED
    BY <2>1, <2>2, <2>3
<1>12. CASE (Absent \/ Completion) /\ pc' # "failed"
  <2>1. strays + Owed <= strays' + Owed' /\ pc # "failed" /\ listed' = listed /\ coming' = coming
    <3>1. CASE Absent
      <4>1. Owed = 0
        BY <1>12, <3>1 DEF Absent, AbsentInTime, Owed
      <4> QED
        BY <1>n, <1>o, <1>12, <3>1, <4>1 DEF Absent
    <3>2. CASE Completion
      <4>1. pc = "wait" /\ pc' \in {"wait", "passed"} /\ proof' = proof /\ proof = "complete"
            /\ UNCHANGED <<emule, strays>>
        BY <1>t, <1>12, <3>2 DEF Completion, Modes
      <4>2. Owed' = 1
        BY <4>1 DEF Owed
      <4> QED
        BY <1>n, <1>o, <4>1, <4>2
    <3> QED
      BY <1>12, <3>1, <3>2
  <2> QED
    BY <1>t, <2>1, StillAccounted
<1>13. CASE NativeDelete \/ Errors
  BY <1>13, <1>f DEF NativeDelete, Errors, Breaks
<1>14. CASE UNCHANGED vars /\ pc' # "failed"
  <2>1. strays + Owed <= strays' + Owed' /\ pc # "failed" /\ listed' = listed /\ coming' = coming
    BY <1>n, <1>14 DEF vars, Owed
  <2> QED
    BY <1>t, <2>1, StillAccounted
<1> HIDE DEF script, emule, Goto
<1> QED
  BY <1>f, <1>1, <1>2, <1>3, <1>4, <1>5, <1>6, <1>7, <1>8, <1>9, <1>10, <1>11, <1>12, <1>13, <1>14
     DEF Next, Requested

LEMMA Inductive == Spec => []IInv
BY InitInv, StepInv, PTL DEF Spec

----------------------------------------------------------------------------
(* The acquisition keeps its types; from the resume on it knows the release whose     *)
(* transfer it acts upon.                                                     *)
THEOREM TypeCorrect == Spec => []TypeOK
<1>1. IInv => TypeOK
  BY DEF IInv
<1> QED
  BY <1>1, Inductive, PTL

(* A passed acquisition leaves the transfer it waited for, if it waited for one, and  *)
(* at most one for each request it gave up on, whichever transfer it took for     *)
(* its own.                                                                   *)
THEOREM LeftoversAreExcused == Spec => []LeftoversExcused
<1>1. IInv => LeftoversExcused
  <2> SUFFICES ASSUME IInv, pc = "passed"
               PROVE  Cardinality(Remaining) <= strays + (IF proof = "complete" THEN 1 ELSE 0)
    BY DEF LeftoversExcused
  <2> DEFINE n == strays + (IF proof = "complete" THEN 1 ELSE 0)
  <2>1. n \in Nat
    BY DEF IInv, TypeOK
  <2>2. Counted(n)
    BY DEF IInv, Accounted, Owed
  <2> QED
    BY <2>1, <2>2, RemainingIsCounted DEF IInv
<1> QED
  BY <1>1, Inductive, PTL
====
