----------------------------- MODULE RecursiveLock -----------------------------
(***************************************************************************)
(* What SCOPED_LOCK and SCOPED_TRY_LOCK promise: a thread enters a guarded *)
(* scope only while no other thread is inside one, and may enter again     *)
(* from within.                                                            *)
(***************************************************************************)
EXTENDS Naturals

CONSTANT Threads

VARIABLE held  \* thread -> the guarded scopes it is in

Init == held = [t \in Threads |-> 0]

Acquire(t) ==
  /\ \A u \in Threads \ {t} : held[u] = 0
  /\ held' = [held EXCEPT ![t] = @ + 1]

Release(t) == held[t] > 0 /\ held' = [held EXCEPT ![t] = @ - 1]

Next == \E t \in Threads : Acquire(t) \/ Release(t)

Spec == Init /\ [][Next]_held

(* Guarded scopes of two threads are never open together.                  *)
OneInside == \A t, u \in Threads : held[t] > 0 /\ held[u] > 0 => t = u
=============================================================================
