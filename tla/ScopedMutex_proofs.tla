-------------------------- MODULE ScopedMutex_proofs --------------------------
(***************************************************************************)
(* Proofs about the scoped lock in both builds, for every set of threads,  *)
(* every timeout and every depth of nesting.  What a thread does by itself *)
(* (BaseInv) is right however many threads are the first to use the lock;  *)
(* what they do to each other (IInv) when one thread alone is.             *)
(***************************************************************************)
EXTENDS ScopedMutex, FiniteSetTheorems, TLAPS

(* The scopes of a thread are numbered from the outside.                   *)
Nested ==
  \A t \in Threads : acquired[t] \subseteq 1 .. depth[t] /\ timed[t] \subseteq 1 .. depth[t]

(* What the place of a thread says about the scope it enters.              *)
Entering ==
  \A t \in Threads :
    /\ pc[t] # "body" => depth[t] < MaxDepth
    /\ pc[t] = "try" => limit[t] # NoTimeout

Freed == owner = NULL <=> count = 0

BaseInv == TypeOK /\ Nested /\ Entering /\ Freed /\ TryBodyGuarded

(* Nobody initialises the mutex that is published.                         *)
Path == \A t \in Threads : pc[t] \in {"init", "publish"} => ~inited

(* Before the mutex is initialised only its first user has been there, and *)
(* nobody has it.                                                          *)
Uninitialised ==
  ~inited =>
    /\ build = "pthread" /\ owner = NULL
    /\ \A t \in Threads :
         /\ acquired[t] = {}
         /\ pc[t] \in {"body", "check", "init", "publish", "recheck"}
         /\ pc[t] # "body" => t \in Starters

IInv == BaseInv /\ Path /\ Uninitialised /\ LockBalanced

OneStarter == \A t, u \in Starters : t = u

-----------------------------------------------------------------------------
(* How the number of scopes that hold the mutex changes when one is opened *)
(* or left.                                                                *)
LEMMA Sizes ==
  ASSUME TypeOK, NEW t \in Threads, NEW d
  PROVE  /\ Cardinality(acquired[t]) \in Nat
         /\ Cardinality(acquired[t]) = 0 <=> acquired[t] = {}
         /\ d \notin acquired[t] => Cardinality(acquired[t] \cup {d}) = Cardinality(acquired[t]) + 1
         /\ d \in acquired[t] => Cardinality(acquired[t] \ {d}) = Cardinality(acquired[t]) - 1
         /\ Cardinality(acquired[t] \ {d}) = 0 => acquired[t] \ {d} = {}
<1>1. IsFiniteSet(1 .. MaxDepth)
  BY LockAssumption, FS_Interval
<1>2. IsFiniteSet(acquired[t])
  BY <1>1, FS_Subset DEF TypeOK
<1> QED
  BY <1>2, FS_CardinalityType, FS_EmptySet, FS_AddElement, FS_RemoveElement

(* Nobody is in a scope, and nobody has the mutex.                         *)
LEMMA InitIInv == Init => IInv
<1> SUFFICES ASSUME Init PROVE IInv
  OBVIOUS
<1>1. TypeOK
  BY LockAssumption DEF Init, TypeOK, Places
<1>2. Nested /\ Entering /\ Freed /\ TryBodyGuarded /\ Path /\ Uninitialised
  BY LockAssumption DEF Init, Nested, Entering, Freed, TryBodyGuarded, Path, Uninitialised
<1>3. LockBalanced
  BY FS_EmptySet, LockAssumption DEF Init, LockBalanced, Opening
<1> QED
  BY <1>1, <1>2, <1>3 DEF IInv, BaseInv

(* The mutex alone is right, whoever uses it.                              *)
LEMMA MutexStep ==
  ASSUME TypeOK, Freed, NEW t \in Threads, Take(t) \/ Unlock(t) \/ UNCHANGED mutex
  PROVE  owner' \in Threads \cup {NULL} /\ count' \in Nat /\ Freed'
BY LockAssumption DEF TypeOK, Freed, Take, CanTake, Unlock, mutex

(* Every step preserves BaseInv, two threads that both initialise the      *)
(* mutex included.                                                         *)
LEMMA NextBase ==
  ASSUME BaseInv, [Next]_vars
  PROVE  BaseInv'
<1> USE LockAssumption DEF BaseInv, Goto, Forget, mutex, scopes
<1>1. ASSUME NEW t \in Threads, Enter(t) PROVE BaseInv'
  BY <1>1 DEF Enter, TypeOK, Places, Attempt, Nested, Entering, Freed, TryBodyGuarded
<1>2. ASSUME NEW t \in Threads, CheckInit(t) \/ Publish(t) PROVE BaseInv'
  BY <1>2 DEF CheckInit, Publish, TypeOK, Places, Nested, Entering, Freed, TryBodyGuarded
<1>3. ASSUME NEW t \in Threads, InitMutex(t) PROVE BaseInv'
  BY <1>3 DEF InitMutex, TypeOK, Places, Nested, Entering, Freed, TryBodyGuarded
<1>5. ASSUME NEW t \in Threads, Recheck(t) PROVE BaseInv'
  BY <1>5 DEF Recheck, TypeOK, Places, Nested, Entering, Freed, TryBodyGuarded, Attempt, Open
<1>6. ASSUME NEW t \in Threads, Lock(t) PROVE BaseInv'
  <2>1. owner' \in Threads \cup {NULL} /\ count' \in Nat /\ Freed'
    BY <1>6, MutexStep DEF Lock
  <2>2. TypeOK'
    BY <1>6, <2>1 DEF Lock, TypeOK, Places, Entering, Open
  <2>3. Nested' /\ Entering' /\ TryBodyGuarded'
    BY <1>6 DEF Lock, TypeOK, Nested, Entering, TryBodyGuarded, Open
  <2> QED
    BY <2>1, <2>2, <2>3
<1>7. ASSUME NEW t \in Threads, TryLock(t) PROVE BaseInv'
  <2>1. /\ limit[t] \in Nat /\ tries[t] \in Nat /\ tries[t] < limit[t]
        /\ tries[t] + 1 \in Nat /\ tries[t] + 1 <= limit[t]
    <3>1. limit[t] # NoTimeout
      BY <1>7 DEF TryLock, Entering
    <3>2. limit[t] \in Nat /\ tries[t] \in Nat /\ tries[t] < limit[t]
      BY <1>7, <3>1 DEF TryLock, TypeOK
    <3> QED
      BY <3>2
  <2>2. CASE ~Take(t)
    <3>1. /\ tries' = [tries EXCEPT ![t] = tries[t] + 1]
          /\ UNCHANGED <<build, inited, mutex, pc, limit, scopes>>
      BY <1>7, <2>2 DEF TryLock, TryTakes
    <3>2. tries' \in [Threads -> Nat]
      BY <2>1, <3>1 DEF TypeOK
    <3>3. \A u \in Threads : limit'[u] # NoTimeout => tries'[u] <= limit'[u]
      BY <2>1, <3>1 DEF TypeOK
    <3>4. TypeOK'
      BY <3>1, <3>2, <3>3 DEF TypeOK
    <3> QED
      BY <3>1, <3>4 DEF Nested, Entering, Freed, TryBodyGuarded
  <2>3. CASE Take(t)
    <3>0. TryTakes(t) /\ UNCHANGED <<build, inited>>
      BY <1>7, <2>3 DEF TryLock, Take
    <3>1. owner' \in Threads \cup {NULL} /\ count' \in Nat /\ Freed'
      BY <2>3, MutexStep
    <3>2. TypeOK'
      <4>1. CASE build = "pthread"
        BY <1>7, <3>0, <3>1, <4>1 DEF TryLock, TryTakes, TypeOK, Places, Entering, Open
      <4>2. CASE build # "pthread"
        BY <3>0, <3>1, <4>2 DEF TryTakes, TypeOK, Places
      <4> QED
        BY <4>1, <4>2
    <3>3. Nested' /\ Entering' /\ TryBodyGuarded'
      BY <1>7, <3>0 DEF TryLock, TryTakes, TypeOK, Nested, Entering, TryBodyGuarded, Open
    <3> QED
      BY <3>1, <3>2, <3>3
  <2> QED
    BY <2>2, <2>3
<1>8. ASSUME NEW t \in Threads, GiveUp(t) PROVE BaseInv'
  BY <1>8 DEF GiveUp, TypeOK, Places, Nested, Entering, Freed, TryBodyGuarded
<1>9. ASSUME NEW t \in Threads, Relock(t) PROVE BaseInv'
  <2>1. owner' \in Threads \cup {NULL} /\ count' \in Nat /\ Freed'
    BY <1>9, MutexStep DEF Relock
  <2> QED
    BY <1>9, <2>1 DEF Relock, TypeOK, Places, Nested, Entering, TryBodyGuarded
<1>10. ASSUME NEW t \in Threads, UnlockOnce(t) PROVE BaseInv'
  <2>1. owner' \in Threads \cup {NULL} /\ count' \in Nat /\ Freed'
    BY <1>10, MutexStep DEF UnlockOnce
  <2>2. TypeOK'
    BY <1>10, <2>1 DEF UnlockOnce, TypeOK, Places, Entering, Open
  <2>3. Nested' /\ Entering' /\ TryBodyGuarded'
    BY <1>10 DEF UnlockOnce, TypeOK, Nested, Entering, TryBodyGuarded, Open
  <2> QED
    BY <2>1, <2>2, <2>3
<1>11. ASSUME NEW t \in Threads, Leave(t) PROVE BaseInv'
  <2>1. owner' \in Threads \cup {NULL} /\ count' \in Nat /\ Freed'
    BY <1>11, MutexStep DEF Leave
  <2>2. TypeOK'
    BY <1>11, <2>1 DEF Leave, TypeOK, Places
  <2>3. Nested' /\ Entering' /\ TryBodyGuarded'
    BY <1>11 DEF Leave, TypeOK, Nested, Entering, TryBodyGuarded
  <2> QED
    BY <2>1, <2>2, <2>3
<1>12. CASE UNCHANGED vars
  BY <1>12 DEF vars, TypeOK, Nested, Entering, Freed, TryBodyGuarded
<1> QED
  BY <1>1, <1>2, <1>3, <1>5, <1>6, <1>7, <1>8, <1>9, <1>10, <1>11, <1>12 DEF Next, Proceed

(* Every step preserves the inductive invariant; that a second thread does *)
(* not initialise the mutex anew is where the one starter is needed.       *)
LEMMA NextIInv ==
  ASSUME OneStarter, IInv, [Next]_vars
  PROVE  IInv'
<1> USE LockAssumption DEF Goto, Forget, mutex, scopes
<1>b. BaseInv'
  BY NextBase DEF IInv
<1>f. TypeOK /\ Nested /\ Entering /\ Path /\ Uninitialised /\ LockBalanced
  BY DEF IInv, BaseInv
<1>q. ASSUME Path', Uninitialised', LockBalanced' PROVE IInv'
  BY <1>b, <1>q DEF IInv
<1>s. ASSUME NEW t \in Threads
      PROVE  /\ Cardinality(acquired[t] \cup {depth[t] + 1}) = Cardinality(acquired[t]) + 1
             /\ acquired[t] = {} => Cardinality(acquired[t]) = 0
             /\ Cardinality(acquired[t]) \in Nat
  <2>1. depth[t] + 1 \notin acquired[t]
    BY <1>f DEF TypeOK, Nested
  <2> QED
    BY <1>f, <2>1, Sizes
<1>z. owner' = NULL <=> count' = 0
  BY <1>b DEF BaseInv, Freed
<1> USE <1>f
<1>1. ASSUME NEW t \in Threads, Enter(t) PROVE IInv'
  <2>1. Path' /\ Uninitialised'
    BY <1>1 DEF Enter, TypeOK, Path, Uninitialised, Attempt
  <2>2. LockBalanced'
    BY <1>1 DEF Enter, TypeOK, LockBalanced, Opening, Attempt
  <2> QED
    BY <1>q, <2>1, <2>2
<1>2. ASSUME NEW t \in Threads, CheckInit(t) PROVE IInv'
  <2>1. Path' /\ Uninitialised' /\ LockBalanced'
    BY <1>2 DEF CheckInit, TypeOK, Path, Uninitialised, LockBalanced, Opening
  <2> QED
    BY <1>q, <2>1
<1>3. ASSUME NEW t \in Threads, InitMutex(t) PROVE IInv'
  <2>1. Path' /\ Uninitialised' /\ LockBalanced'
    BY <1>3 DEF InitMutex, TypeOK, Path, Uninitialised, LockBalanced, Opening
  <2> QED
    BY <1>q, <2>1
<1>4. ASSUME NEW t \in Threads, Publish(t) PROVE IInv'
  <2>1. Path' /\ Uninitialised' /\ LockBalanced'
    BY <1>4 DEF Publish, TypeOK, Path, Uninitialised, LockBalanced, Opening, OneStarter
  <2> QED
    BY <1>q, <2>1
<1>5. ASSUME NEW t \in Threads, Recheck(t) PROVE IInv'
  <2>1. Path' /\ Uninitialised' /\ LockBalanced'
    BY <1>5 DEF Recheck, TypeOK, Path, Uninitialised, LockBalanced, Opening, Attempt, Open
  <2> QED
    BY <1>q, <2>1
<1>6. ASSUME NEW t \in Threads, Lock(t) PROVE IInv'
  <2>1. Path' /\ Uninitialised'
    BY <1>6 DEF Lock, TypeOK, Path, Uninitialised, Take, CanTake, Open
  <2>2. LockBalanced'
    BY <1>6, <1>s, <1>z DEF Lock, TypeOK, LockBalanced, Opening, Take, CanTake, Open
  <2> QED
    BY <1>q, <2>1, <2>2
<1>7. ASSUME NEW t \in Threads, TryLock(t) PROVE IInv'
  <2>1. Path' /\ Uninitialised'
    BY <1>7 DEF TryLock, TypeOK, Path, Uninitialised, TryTakes, Take, CanTake, Open
  <2>2. LockBalanced'
    <3>1. CASE ~CanTake(t)
      BY <1>7, <3>1 DEF TryLock, TryTakes, Take, TypeOK, LockBalanced, Opening
    <3>2. CASE CanTake(t) /\ build = "pthread"
      <4>1. pc[t] = "try" /\ Take(t) /\ Open(t, TRUE)
        BY <1>7, <3>2 DEF TryLock, TryTakes
      <4> QED
        BY <4>1, <1>s, <1>z DEF Take, CanTake, Open, TypeOK, LockBalanced, Opening
    <3>3. CASE CanTake(t) /\ build # "pthread"
      <4>1. /\ Cardinality(acquired[t] \cup {depth[t] + 1}) = Cardinality(acquired[t]) + 1
            /\ acquired[t] = {} => Cardinality(acquired[t]) = 0
            /\ Cardinality(acquired[t]) \in Nat
        BY <1>s
      <4>2. /\ pc[t] = "try" /\ Take(t) /\ Goto(t, "relock") /\ UNCHANGED scopes
        BY <1>7, <3>3 DEF TryLock, TryTakes
      <4> QED
        BY <4>1, <4>2, <1>z DEF Take, CanTake, TypeOK, LockBalanced, Opening
    <3> QED
      BY <3>1, <3>2, <3>3
  <2> QED
    BY <1>q, <2>1, <2>2
<1>8. ASSUME NEW t \in Threads, GiveUp(t) PROVE IInv'
  <2>1. Path' /\ Uninitialised' /\ LockBalanced'
    BY <1>8 DEF GiveUp, TypeOK, Path, Uninitialised, LockBalanced, Opening
  <2> QED
    BY <1>q, <2>1
<1>9. ASSUME NEW t \in Threads, Relock(t) PROVE IInv'
  <2>1. Path' /\ Uninitialised'
    BY <1>9 DEF Relock, TypeOK, Path, Uninitialised, Take, CanTake
  <2>2. LockBalanced'
    <3>1. /\ Cardinality(acquired[t] \cup {depth[t] + 1}) = Cardinality(acquired[t]) + 1
          /\ acquired[t] = {} => Cardinality(acquired[t]) = 0
          /\ Cardinality(acquired[t]) \in Nat
      BY <1>s
    <3> QED
      BY <1>9, <1>z, <3>1 DEF Relock, TypeOK, LockBalanced, Opening, Take, CanTake
  <2> QED
    BY <1>q, <2>1, <2>2
<1>10. ASSUME NEW t \in Threads, UnlockOnce(t) PROVE IInv'
  <2>1. Path' /\ Uninitialised'
    BY <1>10 DEF UnlockOnce, TypeOK, Path, Uninitialised, Unlock, Open
  <2>2. LockBalanced'
    <3>1. /\ Cardinality(acquired[t] \cup {depth[t] + 1}) = Cardinality(acquired[t]) + 1
          /\ acquired[t] = {} => Cardinality(acquired[t]) = 0
          /\ Cardinality(acquired[t]) \in Nat
      BY <1>s
    <3> QED
      BY <1>10, <1>z, <3>1 DEF UnlockOnce, TypeOK, LockBalanced, Opening, Unlock, Open
  <2> QED
    BY <1>q, <2>1, <2>2
<1>11. ASSUME NEW t \in Threads, Leave(t) PROVE IInv'
  <2>1. Path' /\ Uninitialised'
    BY <1>11 DEF Leave, TypeOK, Path, Uninitialised, LockBalanced, Opening, Unlock
  <2>2. LockBalanced'
    <3>1. depth[t] \in acquired[t] =>
            Cardinality(acquired[t] \ {depth[t]}) = Cardinality(acquired[t]) - 1
      BY Sizes
    <3>2. depth[t] \notin acquired[t] => acquired[t] \ {depth[t]} = acquired[t]
      OBVIOUS
    <3>3. Cardinality(acquired[t] \ {depth[t]}) = 0 => acquired[t] \ {depth[t]} = {}
      BY Sizes
    <3>4. Cardinality(acquired[t]) \in Nat
      BY <1>s
    <3>6. /\ pc[t] = "body" /\ UNCHANGED pc
          /\ acquired' = [acquired EXCEPT ![t] = acquired[t] \ {depth[t]}]
      BY <1>11 DEF Leave
    <3>7. CASE depth[t] \notin acquired[t]
      BY <1>11, <1>z, <3>2, <3>6, <3>7 DEF Leave, TypeOK, LockBalanced, Opening
    <3>8. CASE depth[t] \in acquired[t]
      <4>1. owner = t /\ count = Cardinality(acquired[t])
        BY <3>4, <3>6, <3>8 DEF LockBalanced, Opening
      <4>2. count' = count - 1 /\ owner' = IF count = 1 THEN NULL ELSE t
        BY <1>11, <3>8, <4>1 DEF Leave, Unlock
      <4> QED
        BY <1>z, <3>1, <3>3, <3>4, <3>6, <3>8, <4>1, <4>2 DEF TypeOK, LockBalanced, Opening
    <3> QED
      BY <3>7, <3>8
  <2> QED
    BY <1>q, <2>1, <2>2
<1>12. CASE UNCHANGED vars
  <2>1. Path' /\ Uninitialised' /\ LockBalanced'
    BY <1>12 DEF vars, Path, Uninitialised, LockBalanced, Opening
  <2> QED
    BY <1>q, <2>1
<1> QED
  BY <1>1, <1>2, <1>3, <1>4, <1>5, <1>6, <1>7, <1>8, <1>9, <1>10, <1>11, <1>12 DEF Next, Proceed

(* What each thread does by itself is right in every reachable state.      *)
THEOREM BaseInvariant == Spec => []BaseInv
<1>1. Init => BaseInv
  BY InitIInv DEF IInv
<1>2. BaseInv /\ [Next]_vars => BaseInv'
  BY NextBase
<1> QED
  BY <1>1, <1>2, PTL DEF Spec, Safety

(* One thread alone uses the lock first: then every reachable state        *)
(* satisfies the inductive invariant.                                      *)
THEOREM Invariant ==
  ASSUME OneStarter
  PROVE  Spec => []IInv
<1>1. IInv /\ [Next]_vars => IInv'
  BY NextIInv
<1> QED
  BY InitIInv, <1>1, PTL DEF Spec, Safety

-----------------------------------------------------------------------------
(* Every variable keeps its type, and no timed attempt is tried more often *)
(* than its timeout allows, however many threads initialise the mutex.     *)
THEOREM TypeCorrect == Spec => []TypeOK
<1>1. BaseInv => TypeOK
  BY DEF BaseInv
<1> QED
  BY BaseInvariant, <1>1, PTL

(* The code after SCOPED_TRY_LOCK never runs without having taken the      *)
(* mutex, however many threads initialise it.                              *)
THEOREM TimedGuarded == Spec => []TryBodyGuarded
<1>1. BaseInv => TryBodyGuarded
  BY DEF BaseInv
<1> QED
  BY BaseInvariant, <1>1, PTL

(* The mutex is held once for each open scope that acquired it, whatever   *)
(* the nesting and whichever build: no lock is left behind or given away.  *)
THEOREM Balanced ==
  ASSUME OneStarter
  PROVE  Spec => []LockBalanced
<1>1. IInv => LockBalanced
  BY DEF IInv
<1> QED
  BY Invariant, <1>1, PTL

(* Where _bMutexAcquired is set the mutex is held: the race to initialise  *)
(* it is the only way to lose it.                                          *)
THEOREM Held ==
  ASSUME OneStarter
  PROVE  Spec => []AcquiredIsHeld
<1>1. IInv => AcquiredIsHeld
  BY DEF IInv, LockBalanced, AcquiredIsHeld
<1> QED
  BY Invariant, <1>1, PTL

-----------------------------------------------------------------------------
(* StepsLeft counts down: it is the variant that liveness would need, and  *)
(* bounds a constructor for every timeout.                                 *)
LEMMA Countdown ==
  ASSUME BaseInv, NEW t \in Threads, Proceed(t) \/ Lock(t)
  PROVE  StepsLeft(t)' \in 0 .. StepsLeft(t) - 1
<1> USE LockAssumption DEF Goto, Forget, scopes
<1>a. BaseInv
  OBVIOUS
<1>t. /\ tries[t] \in Nat /\ pc \in [Threads -> Places]
      /\ limit[t] # NoTimeout => limit[t] \in Nat /\ tries[t] <= limit[t]
  <2>1. TypeOK
    BY DEF BaseInv
  <2>2. limit[t] \in Limits \cup {NoTimeout}
    BY <2>1 DEF TypeOK
  <2> QED
    BY <2>1, <2>2 DEF TypeOK
<1> DEFINE Tries(l, n) == IF l = NoTimeout THEN 0 ELSE l - n
<1>n. Tries(limit[t], tries[t]) \in Nat
  BY <1>t
<1>o. ASSUME Open(t, TRUE) \/ Open(t, FALSE) \/ (Goto(t, "body") /\ Forget(t))
      PROVE  pc'[t] = "body" /\ limit'[t] = NoTimeout
  BY <1>o DEF Open, BaseInv, TypeOK
<1>b. ASSUME pc'[t] = "body", limit'[t] = NoTimeout, pc[t] \in Places \ {"body"}
      PROVE  StepsLeft(t)' \in 0 .. StepsLeft(t) - 1
  <2>1. Ahead(pc[t]) \in 1 .. 7 /\ Ahead(pc'[t]) = 0
    BY <1>b DEF Ahead, Places
  <2>2. StepsLeft(t)' = 0 /\ StepsLeft(t) = Ahead(pc[t]) + Tries(limit[t], tries[t])
    BY <1>b, <2>1 DEF StepsLeft
  <2> QED
    BY <1>n, <2>1, <2>2
<1>g. ASSUME NEW p \in Places, NEW q \in Places, pc[t] = p, pc' = [pc EXCEPT ![t] = q],
             UNCHANGED <<limit, tries>>, Ahead(q) < Ahead(p), Ahead(q) \in Nat, Ahead(p) \in Nat
      PROVE  StepsLeft(t)' \in 0 .. StepsLeft(t) - 1
  <2>1. pc'[t] = q
    BY <1>t, <1>g
  <2>2. /\ StepsLeft(t)' = Ahead(q) + Tries(limit[t], tries[t])
        /\ StepsLeft(t) = Ahead(p) + Tries(limit[t], tries[t])
    BY <1>g, <2>1 DEF StepsLeft
  <2> QED
    BY <1>g, <1>n, <2>2
<1>1. CASE CheckInit(t)
  <2>1. CASE inited
    BY <1>1, <2>1, <1>g DEF CheckInit, Ahead, Places
  <2>2. CASE ~inited
    BY <1>1, <2>2, <1>g DEF CheckInit, Ahead, Places
  <2> QED
    BY <2>1, <2>2
<1>2. CASE InitMutex(t)
  BY <1>2, <1>g DEF InitMutex, Ahead, Places
<1>3. CASE Publish(t)
  BY <1>3, <1>g DEF Publish, Ahead, Places
<1>4. CASE Recheck(t)
  <2>1. CASE Goto(t, Attempt(limit[t])) /\ UNCHANGED <<limit, tries>>
    <3>1. CASE limit[t] = NoTimeout
      BY <1>4, <2>1, <3>1, <1>g DEF Recheck, Attempt, Ahead, Places
    <3>2. CASE limit[t] # NoTimeout
      BY <1>4, <2>1, <3>2, <1>g DEF Recheck, Attempt, Ahead, Places
    <3> QED
      BY <3>1, <3>2
  <2>2. CASE Open(t, FALSE) \/ (Goto(t, "body") /\ Forget(t))
    BY <1>4, <2>2, <1>o, <1>b DEF Recheck, Places
  <2> QED
    BY <1>4, <2>1, <2>2 DEF Recheck
<1>5. CASE Lock(t)
  BY <1>5, <1>o, <1>b DEF Lock, Places
<1>6. CASE TryLock(t)
  <2>0. pc[t] = "try" /\ tries[t] < limit[t] /\ limit[t] # NoTimeout /\ limit[t] \in Nat
    BY <1>6, <1>t DEF TryLock, BaseInv, Entering
  <2>1. CASE Open(t, TRUE)
    BY <2>0, <2>1, <1>o, <1>b DEF Places
  <2>2. CASE Goto(t, "relock") /\ UNCHANGED <<limit, tries>>
    BY <2>0, <2>2, <1>g DEF Ahead, Places
  <2>3. CASE tries' = [tries EXCEPT ![t] = @ + 1] /\ UNCHANGED <<pc, limit>>
    <3>1. tries'[t] = tries[t] + 1 /\ limit'[t] = limit[t] /\ pc'[t] = "try"
      BY <2>0, <2>3 DEF BaseInv, TypeOK
    <3>2. Ahead("try") = 3
      BY DEF Ahead
    <3>3. /\ StepsLeft(t) = 3 + (limit[t] - tries[t])
          /\ StepsLeft(t)' = 3 + (limit[t] - (tries[t] + 1))
      BY <2>0, <3>1, <3>2 DEF StepsLeft
    <3> QED
      BY <2>0, <1>t, <3>3
  <2> QED
    BY <1>6, <2>1, <2>2, <2>3 DEF TryLock, TryTakes
<1>7. CASE GiveUp(t)
  BY <1>7, <1>o, <1>b DEF GiveUp, Places
<1>8. CASE Relock(t)
  BY <1>8, <1>g DEF Relock, Ahead, Places
<1>9. CASE UnlockOnce(t)
  BY <1>9, <1>o, <1>b DEF UnlockOnce, Places
<1> QED
  BY <1>1, <1>2, <1>3, <1>4, <1>5, <1>6, <1>7, <1>8, <1>9 DEF Proceed

(* Each step of a constructor brings it closer to its end, however many    *)
(* threads initialise the mutex and whatever they do with it.              *)
THEOREM ConstructorsEnd == Spec => ConstructorEnds
<1> DEFINE Counts == \A t \in Threads :
                       Proceed(t) \/ Lock(t) => StepsLeft(t)' \in 0 .. StepsLeft(t) - 1
<1>1. BaseInv => Counts
  BY Countdown
<1> QED
  BY BaseInvariant, <1>1, PTL DEF ConstructorEnds

-----------------------------------------------------------------------------
(* A scope that takes the mutex is entered while no other thread is in one.*)
LEMMA Acquires ==
  ASSUME IInv, NEW t \in Threads, owner \in {NULL, t},
         acquired' = [acquired EXCEPT ![t] = @ \cup {depth[t] + 1}]
  PROVE  Guard!Acquire(t)
<1>1. \A u \in Threads \ {t} : Cardinality(acquired[u]) = 0
  BY FS_EmptySet, LockAssumption DEF IInv, LockBalanced
<1>2. depth[t] + 1 \notin acquired[t]
  BY DEF IInv, BaseInv, TypeOK, Nested
<1>3. Cardinality(acquired[t] \cup {depth[t] + 1}) = Cardinality(acquired[t]) + 1
  BY <1>2, Sizes DEF IInv, BaseInv
<1> QED
  BY <1>1, <1>3 DEF IInv, BaseInv, TypeOK, Guard!Acquire

(* The innermost scope, if it took the mutex, gives back one acquisition.  *)
LEMMA Releases ==
  ASSUME IInv, NEW t \in Threads, depth[t] \in acquired[t],
         acquired' = [acquired EXCEPT ![t] = @ \ {depth[t]}]
  PROVE  Guard!Release(t)
<1>1. Cardinality(acquired[t] \ {depth[t]}) = Cardinality(acquired[t]) - 1
  BY Sizes DEF IInv, BaseInv
<1>2. Cardinality(acquired[t]) \in Nat /\ Cardinality(acquired[t]) # 0
  BY Sizes DEF IInv, BaseInv
<1>3. Cardinality(acquired[t]) > 0
  BY <1>2
<1> DEFINE held == [u \in Threads |-> Cardinality(acquired[u])]
<1>4. held' = [held EXCEPT ![t] = @ - 1]
  BY <1>1 DEF IInv, BaseInv, TypeOK
<1> QED
  BY <1>3, <1>4 DEF Guard!Release

(* Every step enters or leaves a guarded scope, or is invisible.           *)
LEMMA Maps ==
  ASSUME IInv, [Next]_vars
  PROVE  [Guard!Next]_([t \in Threads |-> Cardinality(acquired[t])])
<1>1. CASE UNCHANGED acquired
  BY <1>1
<1>2. ASSUME NEW t \in Threads, Lock(t) PROVE Guard!Acquire(t)
  BY <1>2, Acquires DEF Lock, Take, CanTake, Open
<1>3. ASSUME NEW t \in Threads, TryLock(t), acquired' # acquired PROVE Guard!Acquire(t)
  BY <1>3, Acquires DEF TryLock, TryTakes, Take, CanTake, Open, scopes
<1>4. ASSUME NEW t \in Threads, UnlockOnce(t) PROVE Guard!Acquire(t)
  <2>1. owner = t
    BY <1>4 DEF UnlockOnce, IInv, LockBalanced, Opening
  <2> QED
    BY <1>4, <2>1, Acquires DEF UnlockOnce, Open
<1>5. ASSUME NEW t \in Threads, Leave(t), acquired' # acquired PROVE Guard!Release(t)
  <2>1. depth[t] \in acquired[t]
    BY <1>5 DEF Leave, IInv, BaseInv, TypeOK
  <2> QED
    BY <1>5, <2>1, Releases DEF Leave
<1>6. ASSUME NEW t \in Threads, Recheck(t), acquired' # acquired PROVE FALSE
  BY <1>6 DEF Recheck, Open, scopes, IInv, BaseInv, TypeOK
<1>7. ASSUME NEW t \in Threads,
             Enter(t) \/ CheckInit(t) \/ InitMutex(t) \/ Publish(t) \/ GiveUp(t) \/ Relock(t)
      PROVE  UNCHANGED acquired
  BY <1>7 DEF Enter, CheckInit, InitMutex, Publish, GiveUp, Relock, scopes
<1>8. CASE UNCHANGED vars
  BY <1>8, <1>1 DEF vars, scopes
<1> QED
  BY <1>1, <1>2, <1>3, <1>4, <1>5, <1>6, <1>7, <1>8 DEF Next, Proceed, Guard!Next

(* The scoped lock is a recursive lock.                                    *)
THEOREM Refinement ==
  ASSUME OneStarter
  PROVE  Spec => ImplementsLock
<1>1. Init => Guard!Init
  BY FS_EmptySet DEF Init, Guard!Init
<1>2. IInv /\ [Next]_vars => [Guard!Next]_([t \in Threads |-> Cardinality(acquired[t])])
  BY Maps
<1> QED
  BY Invariant, <1>1, <1>2, PTL DEF Spec, Safety, ImplementsLock, Guard!Spec

(* Entering a guarded scope that nobody else is in, and leaving one, keep  *)
(* all others out.                                                         *)
OneIn(held) == \A t, u \in Threads : held[t] > 0 /\ held[u] > 0 => t = u

LEMMA OneInKept ==
  ASSUME NEW held \in [Threads -> Nat], OneIn(held), NEW t \in Threads, NEW next,
         \/ (\A u \in Threads \ {t} : held[u] = 0) /\ next = [held EXCEPT ![t] = @ + 1]
         \/ held[t] > 0 /\ next = [held EXCEPT ![t] = @ - 1]
  PROVE  next \in [Threads -> Nat] /\ OneIn(next)
BY DEF OneIn

(* What the abstract lock promises it keeps, and with it the scoped lock:  *)
(* no two threads are in guarded scopes at a time.                         *)
LEMMA LockExcludes == ImplementsLock => []Guard!OneInside
<1> DEFINE held == [t \in Threads |-> Cardinality(acquired[t])]
           Inv == held \in [Threads -> Nat] /\ OneIn(held)
<1>1. Guard!Init => Inv
  BY DEF Guard!Init, OneIn
<1>2. Inv /\ [Guard!Next]_held => Inv'
  <2> SUFFICES ASSUME Inv, [Guard!Next]_held PROVE Inv'
    OBVIOUS
  <2>1. CASE held' = held
    BY <2>1 DEF OneIn
  <2>2. ASSUME NEW t \in Threads, Guard!Acquire(t) \/ Guard!Release(t) PROVE Inv'
    <3>1. \/ (\A u \in Threads \ {t} : held[u] = 0) /\ held' = [held EXCEPT ![t] = @ + 1]
          \/ held[t] > 0 /\ held' = [held EXCEPT ![t] = @ - 1]
      BY <2>2 DEF Guard!Acquire, Guard!Release
    <3> HIDE DEF held
    <3> QED
      BY <3>1, OneInKept
  <2> QED
    BY <2>1, <2>2 DEF Guard!Next
<1>3. Inv => Guard!OneInside
  BY DEF OneIn, Guard!OneInside
<1> QED
  BY <1>1, <1>2, <1>3, PTL DEF ImplementsLock, Guard!Spec

(* With one first user no two threads are in scopes that acquired the      *)
(* mutex at a time: SCOPED_LOCK and SCOPED_TRY_LOCK guard what they enclose.*)
THEOREM MutualExclusion ==
  ASSUME OneStarter
  PROVE  Spec => []Guard!OneInside
BY Refinement, LockExcludes, PTL
=============================================================================
