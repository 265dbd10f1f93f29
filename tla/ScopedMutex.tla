------------------------------ MODULE ScopedMutex ------------------------------
(***************************************************************************)
(* The process-wide lock of gst_svp_scopedlock: SCOPED_LOCK() and          *)
(* SCOPED_TRY_LOCK(timeoutMS, ...), nested in any way, in both builds.     *)
(*                                                                         *)
(* build = "pthread" is class ScopedMutex over a static pthread mutex that *)
(* the first constructor to run initialises; build = "libc" is the macros  *)
(* of USE_LIBC_SCOPED_LOCK over a std::recursive_mutex.  A step is one     *)
(* access to the mutex or to _bMutexInit; pc names the access that comes   *)
(* next, "body" being the code of a scope, or outside of all scopes.       *)
(***************************************************************************)
EXTENDS FiniteSets, Integers

CONSTANTS Threads,
          NULL,
          NoTimeout,  \* the limit of SCOPED_LOCK, which waits for ever
          Limits,     \* NoTimeout and values of timeoutMS
          MaxDepth,   \* bound on scopes nested by one thread
          Starters,   \* threads that may use the lock before it is initialised
          Builds

ASSUME LockAssumption ==
  /\ NULL \notin Threads
  /\ NoTimeout \notin Nat
  /\ Limits \subseteq Nat \cup {NoTimeout}
  /\ MaxDepth \in Nat
  /\ Starters \subseteq Threads
  /\ Builds \subseteq {"pthread", "libc"}

VARIABLES build,
          inited,    \* _bMutexInit; a std::recursive_mutex always is
          owner,     \* the thread that holds the mutex, or NULL
          count,     \* how often it holds it
          pc,        \* thread -> where it is
          limit,     \* thread -> timeoutMS of the scope it enters
          tries,     \* thread -> nCount, nTryCount
          depth,     \* thread -> its open scopes
          acquired,  \* thread -> those that took the mutex (_bMutexAcquired)
          timed      \* thread -> those of SCOPED_TRY_LOCK (history)

mutex == <<owner, count>>
scopes == <<depth, acquired, timed>>
vars == <<build, inited, mutex, pc, limit, tries, scopes>>

Places == {"body", "check", "init", "publish", "recheck", "lock", "try",
           "relock", "unlock"}

TypeOK ==
  /\ build \in Builds
  /\ inited \in BOOLEAN
  /\ owner \in Threads \cup {NULL}
  /\ count \in Nat
  /\ pc \in [Threads -> Places]
  /\ limit \in [Threads -> Limits \cup {NoTimeout}]
  /\ tries \in [Threads -> Nat]
  /\ depth \in [Threads -> 0 .. MaxDepth]
  /\ acquired \in [Threads -> SUBSET (1 .. MaxDepth)]
  /\ timed \in [Threads -> SUBSET (1 .. MaxDepth)]
  /\ \A t \in Threads : limit[t] # NoTimeout => tries[t] <= limit[t]

Init ==
  /\ build \in Builds
  /\ inited = (build = "libc")
  /\ owner = NULL /\ count = 0
  /\ pc = [t \in Threads |-> "body"]
  /\ limit = [t \in Threads |-> NoTimeout]
  /\ tries = [t \in Threads |-> 0]
  /\ depth = [t \in Threads |-> 0]
  /\ acquired = [t \in Threads |-> {}]
  /\ timed = [t \in Threads |-> {}]

-----------------------------------------------------------------------------
(* The recursive mutex.                                                    *)
CanTake(t) == owner \in {NULL, t}
Take(t) == CanTake(t) /\ owner' = t /\ count' = count + 1

(* Unlocking a mutex of another thread is refused; nobody looks.           *)
Unlock(t) ==
  IF owner # t THEN UNCHANGED mutex
  ELSE /\ count' = count - 1
       /\ owner' = IF count = 1 THEN NULL ELSE t

Goto(t, place) == pc' = [pc EXCEPT ![t] = place]
Attempt(lim) == IF lim = NoTimeout THEN "lock" ELSE "try"

(* The scope is open, with the mutex or without; limit and nCount go.      *)
Forget(t) ==
  /\ limit' = [limit EXCEPT ![t] = NoTimeout]
  /\ tries' = [tries EXCEPT ![t] = 0]

Open(t, took) ==
  /\ Goto(t, "body") /\ Forget(t)
  /\ depth' = [depth EXCEPT ![t] = @ + 1]
  /\ acquired' = [acquired EXCEPT ![t] = @ \cup IF took THEN {depth[t] + 1} ELSE {}]
  /\ timed' = [timed EXCEPT ![t] = @ \cup IF limit[t] = NoTimeout THEN {} ELSE {depth[t] + 1}]

-----------------------------------------------------------------------------
Enter(t) ==
  /\ pc[t] = "body" /\ depth[t] < MaxDepth
  /\ inited \/ t \in Starters
  /\ \E lim \in Limits :
       /\ limit' = [limit EXCEPT ![t] = lim]
       /\ Goto(t, IF build = "pthread" THEN "check" ELSE Attempt(lim))
  /\ tries' = [tries EXCEPT ![t] = 0]
  /\ UNCHANGED <<build, inited, mutex, scopes>>

CheckNothing(t) == \* mutant: if(!_bMutexInit) is missing
  /\ pc[t] = "check" /\ Goto(t, "init")
  /\ UNCHANGED <<build, inited, mutex, limit, tries, scopes>>

CheckInit(t) ==
  /\ pc[t] = "check" /\ Goto(t, IF inited THEN "recheck" ELSE "init")
  /\ UNCHANGED <<build, inited, mutex, limit, tries, scopes>>

(* pthread_mutex_init: the mutex is free afterwards, whoever held it.      *)
InitMutexAgain(t) == \* mutant: a failure is tried again, as often as it takes
  /\ pc[t] = "init"
  /\ \/ Goto(t, "publish") /\ owner' = NULL /\ count' = 0
     \/ Goto(t, "check") /\ UNCHANGED mutex
  /\ UNCHANGED <<build, inited, limit, tries, scopes>>

InitMutex(t) ==
  /\ pc[t] = "init"
  /\ \/ Goto(t, "publish") /\ owner' = NULL /\ count' = 0
     \/ Goto(t, "recheck") /\ UNCHANGED mutex
  /\ UNCHANGED <<build, inited, limit, tries, scopes>>

Publish(t) ==
  /\ pc[t] = "publish" /\ Goto(t, "recheck")
  /\ inited' = TRUE
  /\ UNCHANGED <<build, mutex, limit, tries, scopes>>

(* Without a mutex SCOPED_LOCK goes on, SCOPED_TRY_LOCK returns.           *)
Recheck(t) ==
  /\ pc[t] = "recheck" /\ UNCHANGED <<build, inited, mutex>>
  /\ \/ inited /\ Goto(t, Attempt(limit[t])) /\ UNCHANGED <<limit, tries, scopes>>
     \/ ~inited /\ limit[t] = NoTimeout /\ Open(t, FALSE)
     \/ ~inited /\ limit[t] # NoTimeout /\ Goto(t, "body") /\ Forget(t) /\ UNCHANGED scopes

Lock(t) ==
  /\ pc[t] = "lock"
  /\ Take(t) /\ Open(t, TRUE)
  /\ UNCHANGED <<build, inited>>

(* One round of the loop; usleep(1000) follows a failure.                  *)
TryTakes(t) ==
  /\ Take(t)
  /\ IF build = "pthread" THEN Open(t, TRUE)
     ELSE Goto(t, "relock") /\ UNCHANGED <<limit, tries, scopes>>

TryForgetsCount(t) == \* mutant: nCount++ is missing
  /\ pc[t] = "try" /\ tries[t] < limit[t]
  /\ \/ TryTakes(t)
     \/ ~CanTake(t) /\ UNCHANGED <<mutex, pc, limit, tries, scopes>>
  /\ UNCHANGED <<build, inited>>

TryOnceMore(t) == \* mutant: while(nCount <= timeoutMS)
  /\ pc[t] = "try" /\ tries[t] <= limit[t]
  /\ \/ TryTakes(t)
     \/ /\ ~CanTake(t)
        /\ tries' = [tries EXCEPT ![t] = @ + 1] /\ UNCHANGED <<mutex, pc, limit, scopes>>
  /\ UNCHANGED <<build, inited>>

TryLock(t) ==
  /\ pc[t] = "try" /\ tries[t] < limit[t]
  /\ \/ TryTakes(t)
     \/ /\ ~CanTake(t)
        /\ tries' = [tries EXCEPT ![t] = @ + 1] /\ UNCHANGED <<mutex, pc, limit, scopes>>
  /\ UNCHANGED <<build, inited>>

(* The macro finds that the lock is not acquired, and returns.             *)
GiveUpGoesOn(t) == \* mutant: the macro does not look
  /\ pc[t] = "try" /\ tries[t] >= limit[t]
  /\ Open(t, FALSE)
  /\ UNCHANGED <<build, inited, mutex>>

GiveUp(t) ==
  /\ pc[t] = "try" /\ tries[t] >= limit[t]
  /\ Goto(t, "body") /\ Forget(t)
  /\ UNCHANGED <<build, inited, mutex, scopes>>

(* The libc macro locks once more, by a lock_guard, and unlocks once.      *)
Relock(t) ==
  /\ pc[t] = "relock" /\ Goto(t, "unlock")
  /\ Take(t)
  /\ UNCHANGED <<build, inited, limit, tries, scopes>>

UnlockOnceForgotten(t) == \* mutant: _lock.unlock() is missing
  /\ pc[t] = "unlock" /\ Open(t, TRUE)
  /\ UNCHANGED <<build, inited, mutex>>

UnlockOnce(t) ==
  /\ pc[t] = "unlock" /\ Open(t, TRUE)
  /\ Unlock(t)
  /\ UNCHANGED <<build, inited>>

(* The destructor of the innermost scope.                                  *)
Leave(t) ==
  /\ pc[t] = "body" /\ depth[t] > 0
  /\ IF depth[t] \in acquired[t] THEN Unlock(t) ELSE UNCHANGED mutex
  /\ depth' = [depth EXCEPT ![t] = @ - 1]
  /\ acquired' = [acquired EXCEPT ![t] = @ \ {depth[t]}]
  /\ timed' = [timed EXCEPT ![t] = @ \ {depth[t]}]
  /\ UNCHANGED <<build, inited, pc, limit, tries>>

(* What a thread does by itself once it has entered a constructor.         *)
Proceed(t) ==
  \/ CheckInit(t) \/ InitMutex(t) \/ Publish(t) \/ Recheck(t)
  \/ TryLock(t) \/ GiveUp(t) \/ Relock(t) \/ UnlockOnce(t)

Next == \E t \in Threads : Enter(t) \/ Proceed(t) \/ Lock(t) \/ Leave(t)

Safety == Init /\ [][Next]_vars

(* A thread that can run runs.  Nothing is assumed of the body of a scope, *)
(* which may go on for ever, nor of who gets a mutex that several wait for.*)
Spec == Safety /\ \A t \in Threads : WF_vars(Proceed(t))

-----------------------------------------------------------------------------
(* What a thread in the middle of the libc macro holds beyond its scopes.  *)
Opening(t) ==
  IF pc[t] = "relock" THEN 1 ELSE IF pc[t] = "unlock" THEN 2 ELSE 0

(* The mutex is held by the thread with open scopes that acquired it, once *)
(* for each of them, and by nobody when there are none: acquisition by     *)
(* timed attempts, nesting and the double locking of the libc macro leave  *)
(* no lock behind and give none away early.                                *)
LockBalanced ==
  /\ owner = NULL <=> count = 0
  /\ \A t \in Threads : IF owner = t THEN count = Cardinality(acquired[t]) + Opening(t)
                        ELSE acquired[t] = {} /\ Opening(t) = 0

(* The code after SCOPED_TRY_LOCK runs with the mutex or not at all, also  *)
(* when the mutex could not be initialised.                                *)
TryBodyGuarded == \A t \in Threads : timed[t] \subseteq acquired[t]

(* Where _bMutexAcquired is set, the thread holds the mutex.               *)
AcquiredIsHeld == \A t \in Threads : acquired[t] # {} => owner = t

Guard == INSTANCE RecursiveLock
           WITH held <- [t \in Threads |-> Cardinality(acquired[t])]

(* Guarded scopes of all threads are those of a recursive lock.            *)
ImplementsLock == Guard!Spec

(* At most so many steps of its own separate a thread from the body of the *)
(* scope it enters, or from giving up, if it gets the mutex when it must.  *)
Ahead(place) ==
  CASE place = "body" -> 0
    [] place \in {"lock", "unlock"} -> 1
    [] place = "relock" -> 2
    [] place = "try" -> 3
    [] place = "recheck" -> 4
    [] place = "publish" -> 5
    [] place = "init" -> 6
    [] place = "check" -> 7

StepsLeft(t) == Ahead(pc[t]) + IF limit[t] = NoTimeout THEN 0 ELSE limit[t] - tries[t]

(* No constructor goes round in circles, not even when initialising fails  *)
(* or the scope is nested: each of its steps leaves fewer to take, and a   *)
(* timed one takes at most seven and one for each attempt.                 *)
ConstructorEnds ==
  [][\A t \in Threads :
       Proceed(t) \/ Lock(t) => StepsLeft(t)' \in 0 .. StepsLeft(t) - 1]_vars

(* SCOPED_TRY_LOCK comes to an end whatever other threads do with the      *)
(* lock: it enters its scope or gives up.                                  *)
TimedEnds ==
  \A t \in Threads : limit[t] # NoTimeout ~> pc[t] = "body"
=============================================================================
