------------------------ MODULE SecureBufferApi_proofs ------------------------
(***************************************************************************)
(* What a caller may rely on, whichever implementation is registered: it   *)
(* follows from the transactions alone.                                    *)
(***************************************************************************)
EXTENDS SecureBufferApi, TLAPS

(* No region is usable by two sessions, or by a session and downstream.    *)
THEOREM RegionsDisjoint == Spec => []Disjoint
<1> DEFINE IInv == TypeOK /\ Disjoint
<1>1. Init => IInv
  BY DEF Init, TypeOK, Disjoint
<1>2. IInv /\ [Next]_vars => IInv'
  <2> SUFFICES ASSUME IInv, [Next]_vars PROVE IInv'
    OBVIOUS
  <2> USE DEF TypeOK, Disjoint
  <2>1. ASSUME NEW s \in Sessions, Allocate(s) PROVE IInv'
    <3>1. PICK a, b \in Regions \ InUse : held' = [held EXCEPT ![s] = {a, b}]
      BY <2>1 DEF Allocate
    <3>2. \A t \in Sessions : {a, b} \cap held[t] = {}
      BY DEF InUse
    <3> QED
      BY <2>1, <3>1, <3>2 DEF Allocate, InUse
  <2>2. ASSUME NEW s \in Sessions, NEW r \in Regions, HandOver(s, r) \/ GiveBack(s, r) PROVE IInv'
    BY <2>2 DEF HandOver, GiveBack
  <2>3. ASSUME NEW r \in Regions, Redeem(r) PROVE IInv'
    BY <2>3 DEF Redeem
  <2>4. CASE UNCHANGED vars
    BY <2>4 DEF vars
  <2> QED
    BY <2>1, <2>2, <2>3, <2>4 DEF Next
<1>3. IInv => Disjoint
  OBVIOUS
<1> QED
  BY <1>1, <1>2, <1>3, PTL DEF Spec
=============================================================================
