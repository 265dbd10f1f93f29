------------------------ MODULE SecureBuffersV2_proofs ------------------------
(***************************************************************************)
(* Proofs about the SecAPI 2 implementation, for every set of threads and  *)
(* regions.  BaseInv, and that nothing leaks, hold in any case; the rest   *)
(* when IN can be allocated wherever OUT could: without that the double    *)
(* free of OUT breaks it.                                                  *)
(***************************************************************************)
EXTENDS SecureBuffersV2, SecureHeap_proofs

(* What the position in a call says about the pointers.                    *)
Control ==
  \A s \in Sessions :
    /\ pc[s] \in {"idle", "alloc_out", "alloc_in", "free_out", "discard_out"} => inBuf[s] = NULL
    /\ pc[s] \in {"idle", "alloc_out", "free_in"} => outBuf[s] = NULL
    /\ pc[s] = "write" => inBuf[s] # NULL

BaseInv == TypeOK /\ Control /\ TokenOfOut

(* The free of line 63 has nothing to free.                                *)
NothingToFree == \A s \in Sessions : pc[s] = "free_out" => outBuf[s] = NULL

IInv == BaseInv /\ NothingToFree /\ Allocated /\ NamedOnce /\ InputCopied

-----------------------------------------------------------------------------
(* Nothing is allocated and no pointer set.                                *)
LEMMA InitIInv == Init => IInv
  BY HeapAssumption DEF Init, IInv, BaseInv, TypeOK, HeapTypeOK, Control, TokenOfOut,
     NothingToFree, Allocated, NamedOnce, InputCopied, Calls, Args, Pointers

(* Every step preserves BaseInv, the double free included.                 *)
LEMMA NextBase == BaseInv /\ [Next]_vars => BaseInv'
<1> SUFFICES ASSUME BaseInv, [Next]_vars PROVE BaseInv'
  OBVIOUS
<1> USE HeapAssumption
    DEF BaseInv, TypeOK, HeapTypeOK, Control, TokenOfOut, Calls, Args, Pointers, Goto,
        Continue, heap
<1>1. ASSUME NEW s \in Sessions, Allocate(s) PROVE BaseInv'
  BY <1>1 DEF Allocate
<1>2. ASSUME NEW s \in Sessions, MallocOut(s) PROVE BaseInv'
  <2>1. CASE UNCHANGED <<outBuf, heap>>
    BY <1>2, <2>1 DEF MallocOut
  <2>2. ASSUME NEW r \in Regions, Alloc(r), outBuf' = [outBuf EXCEPT ![s] = r],
               Goto(s, "alloc_in"), pc[s] = "alloc_out", UNCHANGED <<arg, inBuf, token>>
        PROVE BaseInv'
    BY <2>2 DEF Alloc
  <2> QED
    BY <1>2, <2>1, <2>2 DEF MallocOut
<1>3. ASSUME NEW s \in Sessions, MallocIn(s) PROVE BaseInv'
  <2>1. CASE MallocInGrant(s)
    BY <2>1 DEF MallocInGrant, Alloc
  <2>2. CASE UNCHANGED <<inBuf, heap>>
    BY <1>3, <2>2 DEF MallocIn, MallocInGrant
  <2> QED
    BY <1>3, <2>1, <2>2 DEF MallocIn
<1>4. ASSUME NEW s \in Sessions, FreeOut(s) PROVE BaseInv'
  BY <1>4 DEF FreeOut, FreeIfSet, Free
<1>5. ASSUME NEW s \in Sessions, Write(s) PROVE BaseInv'
  BY <1>5 DEF Write
<1>6. ASSUME NEW s \in Sessions, DiscardIn(s) PROVE BaseInv'
  BY <1>6 DEF DiscardIn, FreeIfSet, Free
<1>7. ASSUME NEW s \in Sessions, DiscardOut(s) PROVE BaseInv'
  BY <1>7 DEF DiscardOut, FreeIfSet, Free
<1>8. ASSUME NEW s \in Sessions, FreeSecureBuffer(s) PROVE BaseInv'
  BY <1>8 DEF FreeSecureBuffer, Free
<1>9. ASSUME NEW s \in Sessions, Finish(s) PROVE BaseInv'
  BY <1>9 DEF Finish, Held
<1>10. ASSUME NEW s \in Sessions, Release(s) PROVE BaseInv'
  BY <1>10 DEF Release
<1>11. ASSUME NEW s \in Sessions, ToToken(s) PROVE BaseInv'
  BY <1>11 DEF ToToken
<1>12. ASSUME NEW s \in Sessions, HandOff(s) PROVE BaseInv'
  BY <1>12 DEF HandOff
<1>13. ASSUME NEW s \in Sessions, FreeIn(s) PROVE BaseInv'
  BY <1>13 DEF FreeIn, FreeIfSet, Free
<1>14. ASSUME NEW r \in Regions, Redeem(r) PROVE BaseInv'
  BY <1>14 DEF Redeem
<1>15. CASE UNCHANGED vars
  BY <1>15 DEF vars
<1> QED
  BY <1>1, <1>2, <1>3, <1>4, <1>5, <1>6, <1>7, <1>8, <1>9, <1>10, <1>11, <1>12, <1>13, <1>14,
     <1>15
  DEF Next, Step

(* BaseInv holds in every reachable state.                                 *)
THEOREM BaseInvariant == Spec => []BaseInv
<1>1. Init => BaseInv
  BY InitIInv DEF IInv
<1> QED
  BY <1>1, NextBase, PTL DEF Spec

(* Every step preserves the inductive invariant.  The assumption is used   *)
(* where IN cannot be allocated: OUT is then NULL, and freed by nobody.    *)
LEMMA NextIInv ==
  ASSUME ~InMallocMayFail, IInv, [Next]_vars
  PROVE  IInv'
<1> USE HeapAssumption
    DEF IInv, BaseInv, TypeOK, HeapTypeOK, Control, TokenOfOut, NothingToFree, Allocated,
        NamedOnce, InputCopied, Calls, Args, Pointers, Goto, Continue, heap
<1>1. ASSUME NEW s \in Sessions, Allocate(s) PROVE IInv'
  BY <1>1 DEF Allocate
<1>2. ASSUME NEW s \in Sessions, MallocOut(s) PROVE IInv'
  <2>1. CASE UNCHANGED <<outBuf, heap>>
    BY <1>2, <2>1 DEF MallocOut
  <2>2. ASSUME NEW r \in Regions, Alloc(r), outBuf' = [outBuf EXCEPT ![s] = r],
               Goto(s, "alloc_in"), pc[s] = "alloc_out", UNCHANGED <<arg, inBuf, token>>
        PROVE IInv'
    BY <2>2 DEF Alloc
  <2> QED
    BY <1>2, <2>1, <2>2 DEF MallocOut
<1>3. ASSUME NEW s \in Sessions, MallocIn(s) PROVE IInv'
  <2>1. CASE UNCHANGED <<inBuf, heap>>
    BY <1>3, <2>1 DEF MallocIn, MallocInGrant
  <2>2. ASSUME NEW r \in Regions, Alloc(r), inBuf' = [inBuf EXCEPT ![s] = r],
               Goto(s, "write"), pc[s] = "alloc_in", UNCHANGED <<arg, outBuf, token>>
        PROVE IInv'
    BY <2>2 DEF Alloc
  <2> QED
    BY <1>3, <2>1, <2>2 DEF MallocIn, MallocInGrant
<1>4. ASSUME NEW s \in Sessions, FreeOut(s) PROVE IInv'
  BY <1>4 DEF FreeOut, FreeIfSet, Free
<1>5. ASSUME NEW s \in Sessions, Write(s) PROVE IInv'
  BY <1>5 DEF Write
<1>6. ASSUME NEW s \in Sessions, DiscardIn(s) PROVE IInv'
  BY <1>6 DEF DiscardIn, FreeIfSet, Free
<1>7. ASSUME NEW s \in Sessions, DiscardOut(s) PROVE IInv'
  BY <1>7 DEF DiscardOut, FreeIfSet, Free
<1>8. ASSUME NEW s \in Sessions, FreeSecureBuffer(s) PROVE IInv'
  <2>1. ASSUME inBuf[s] # NULL, Free(inBuf[s]), inBuf' = [inBuf EXCEPT ![s] = NULL],
               pc[s] = "returned", UNCHANGED <<pc, arg, outBuf, token>>
        PROVE IInv'
    BY <2>1 DEF Free
  <2>2. ASSUME outBuf[s] # NULL, Free(outBuf[s]), outBuf' = [outBuf EXCEPT ![s] = NULL],
               pc[s] = "returned", UNCHANGED <<pc, arg, inBuf, token>>
        PROVE IInv'
    BY <2>2 DEF Free
  <2> QED
    BY <1>8, <2>1, <2>2 DEF FreeSecureBuffer
<1>9. ASSUME NEW s \in Sessions, Finish(s) \/ Release(s) PROVE IInv'
  <2>1. CASE Finish(s)
    BY <2>1 DEF Finish, Held
  <2>2. CASE Release(s)
    BY <2>2 DEF Release, Held
  <2> QED
    BY <1>9, <2>1, <2>2
<1>10. ASSUME NEW s \in Sessions, ToToken(s) PROVE IInv'
  BY <1>10 DEF ToToken
<1>11. ASSUME NEW s \in Sessions, HandOff(s) PROVE IInv'
  BY <1>11 DEF HandOff
<1>12. ASSUME NEW s \in Sessions, FreeIn(s) PROVE IInv'
  BY <1>12 DEF FreeIn, FreeIfSet, Free
<1>13. ASSUME NEW r \in Regions, Redeem(r) PROVE IInv'
  BY <1>13 DEF Redeem
<1>14. CASE UNCHANGED vars
  BY <1>14 DEF vars
<1> QED
  BY <1>1, <1>2, <1>3, <1>4, <1>5, <1>6, <1>7, <1>8, <1>9, <1>10, <1>11, <1>12, <1>13, <1>14
  DEF Next, Step

(* The inductive invariant holds in every reachable state.                 *)
THEOREM Invariant ==
  ASSUME ~InMallocMayFail
  PROVE  Spec => []IInv
<1>1. IInv /\ [Next]_vars => IInv'
  BY NextIInv
<1> QED
  BY InitIInv, <1>1, PTL DEF Spec

-----------------------------------------------------------------------------
(* Every variable keeps its type, whether or not OUT is freed twice.       *)
THEOREM TypeCorrect == Spec => []TypeOK
<1>1. BaseInv => TypeOK
  BY DEF BaseInv
<1> QED
  BY BaseInvariant, <1>1, PTL

(* No thread ever has a pointer to freed secure memory, and no delivered   *)
(* token stands for any.                                                   *)
THEOREM MemorySafe ==
  ASSUME ~InMallocMayFail
  PROVE  Spec => []NoDangling
<1>1. IInv => NoDangling
  BY DEF IInv, Allocated, NoDangling, InUse, Held
<1> QED
  BY Invariant, <1>1, PTL

(* Threads never share a region, with one another or with the consumer of  *)
(* a token.                                                                *)
THEOREM OwnersExclusive ==
  ASSUME ~InMallocMayFail
  PROVE  Spec => []Exclusive
<1>1. IInv => Exclusive
  BY DEF IInv, NamedOnce, Exclusive, Held
<1> QED
  BY Invariant, <1>1, PTL

(* A failed SecOpaqueBuffer_Write leaves no input buffer to the caller.     *)
THEOREM InputIsCopied ==
  ASSUME ~InMallocMayFail
  PROVE  Spec => []InputCopied
<1>1. IInv => InputCopied
  BY DEF IInv
<1> QED
  BY Invariant, <1>1, PTL

(* Without the failure between OUT and IN no error path frees a buffer     *)
(* twice, or one that became another thread's.                             *)
THEOREM NoDoubleFree ==
  ASSUME ~InMallocMayFail
  PROVE  Spec => []FreesOwnLiveBuffer
<1>1. IInv => FreesOwnLiveBuffer
  BY HeapAssumption DEF IInv, BaseInv, Allocated, NamedOnce, FreesOwnLiveBuffer, Held
<1> QED
  BY Invariant, <1>1, PTL

-----------------------------------------------------------------------------
(* Nothing allocated drops out of sight: each action keeps a region's      *)
(* name, passes it on, or frees it.  The double free loses nothing either. *)
THEOREM NothingLeaks == Spec => []NoLeak
<1> DEFINE Named(r) == \/ r \in handed \cup lost
                       \/ \E s \in Sessions : r \in {inBuf[s], outBuf[s]}
           Tracked == \A r \in live : Named(r)
<1>1. Init => Tracked
  BY DEF Init
<1>2. BaseInv /\ Tracked /\ [Next]_vars => Tracked'
  <2> SUFFICES ASSUME BaseInv, Tracked, [Next]_vars, NEW r \in live' PROVE Named(r)'
    OBVIOUS
  <2> USE HeapAssumption DEF BaseInv, TypeOK, HeapTypeOK, Pointers, Goto, Continue, heap
  <2>1. ASSUME NEW s \in Sessions, Allocate(s) \/ Write(s) \/ Finish(s) \/ Release(s)
        PROVE Named(r)'
    BY <2>1 DEF Allocate, Write, Finish, Release
  <2>2. ASSUME NEW s \in Sessions, MallocOut(s) PROVE Named(r)'
    BY <2>2 DEF MallocOut, Alloc, Control
  <2>3. ASSUME NEW s \in Sessions, MallocIn(s) PROVE Named(r)'
    BY <2>3 DEF MallocIn, MallocInGrant, Alloc, Control
  <2>4. ASSUME NEW s \in Sessions, FreeOut(s) \/ DiscardIn(s) \/ DiscardOut(s) \/ FreeIn(s)
        PROVE Named(r)'
    BY <2>4 DEF FreeOut, DiscardIn, DiscardOut, FreeIn, FreeIfSet, Free
  <2>5. ASSUME NEW s \in Sessions, FreeSecureBuffer(s) PROVE Named(r)'
    BY <2>5 DEF FreeSecureBuffer, Free
  <2>6. ASSUME NEW s \in Sessions, ToToken(s) PROVE Named(r)'
    BY <2>6 DEF ToToken
  <2>7. ASSUME NEW s \in Sessions, HandOff(s) PROVE Named(r)'
    <3>1. r \in live /\ r # NULL /\ Named(r)
      BY <2>7 DEF HandOff
    <3>2. CASE r = outBuf[s]
      BY <3>1, <3>2, <2>7 DEF HandOff, TokenOfOut
    <3>3. CASE r # outBuf[s]
      BY <3>1, <3>3, <2>7 DEF HandOff
    <3> QED
      BY <3>2, <3>3
  <2>8. ASSUME NEW q \in Regions, Redeem(q) PROVE Named(r)'
    BY <2>8 DEF Redeem
  <2>9. CASE UNCHANGED vars
    BY <2>9 DEF vars
  <2> QED
    BY <2>1, <2>2, <2>3, <2>4, <2>5, <2>6, <2>7, <2>8, <2>9 DEF Next, Step
<1>3. BaseInv /\ Tracked => NoLeak
  BY HeapAssumption DEF BaseInv, TypeOK, HeapTypeOK, NoLeak, InUse, Held
<1> QED
  BY BaseInvariant, <1>1, <1>2, <1>3, PTL DEF Spec

-----------------------------------------------------------------------------
(* Although the result code says nothing, callers see transactions.        *)
THEOREM Refinement ==
  ASSUME ~InMallocMayFail
  PROVE  Spec => ImplementsApi
<1>1. Init => Api!Init
  BY DEF Init, Api!Init, Usable
<1>2. IInv /\ IInv' /\ [Next]_vars => [Api!Next]_Api!vars
  <2> SUFFICES ASSUME IInv, IInv', [Next]_vars PROVE [Api!Next]_Api!vars
    OBVIOUS
  <2>t. HeapTypeOK' /\ NamedOnce'
    BY DEF IInv, BaseInv, TypeOK
  <2> USE HeapAssumption DEF IInv, BaseInv, TypeOK, HeapTypeOK, Pointers, Calls, Goto, Continue, heap
  <2>1. ASSUME NEW s \in Sessions, Allocate(s) \/ MallocOut(s) \/ FreeOut(s) \/ DiscardIn(s)
        PROVE [Api!Next]_Api!vars
    <3>1. handed' = handed /\ \A t \in Sessions \ {s} : Usable(t)' = Usable(t)
      BY <2>1 DEF Allocate, MallocOut, FreeOut, DiscardIn, Alloc, FreeIfSet, Free, Usable, Held
    <3>2. Usable(s) = {} /\ Usable(s)' = {}
      BY <2>1 DEF Allocate, MallocOut, FreeOut, DiscardIn, Usable
    <3> QED
      BY <3>1, <3>2, Invisible
  <2>2. ASSUME NEW s \in Sessions, MallocIn(s) \/ Write(s) \/ DiscardOut(s)
        PROVE [Api!Next]_Api!vars
    <3>1. handed' = handed /\ \A t \in Sessions \ {s} : Usable(t)' = Usable(t)
      BY <2>2 DEF MallocIn, MallocInGrant, Write, DiscardOut, Alloc, FreeIfSet, Free, Usable, Held
    <3>2. Usable(s) = {} /\ Usable(s)' \in {{}, Held(s)'}
      BY <2>2 DEF MallocIn, MallocInGrant, Write, DiscardOut, Usable
    <3> QED
      BY <2>t, <3>1, <3>2, Invisible, Returns
  <2>3. ASSUME NEW s \in Sessions, Finish(s) \/ Release(s) \/ ToToken(s)
        PROVE [Api!Next]_Api!vars
    <3>1. handed' = handed /\ \A t \in Sessions \ {s} : Usable(t)' = Usable(t)
      BY <2>3 DEF Finish, Release, ToToken, Usable, Held
    <3>2. Usable(s)' = Usable(s)
      BY <2>3 DEF Finish, Release, ToToken, Usable, Held
    <3> QED
      BY <3>1, <3>2, Invisible
  <2>4. ASSUME NEW s \in Sessions, FreeSecureBuffer(s) PROVE [Api!Next]_Api!vars
    <3>1. handed' = handed /\ \A t \in Sessions \ {s} : Usable(t)' = Usable(t)
      BY <2>4 DEF FreeSecureBuffer, Free, Usable, Held
    <3>2. PICK r \in {inBuf[s], outBuf[s]} \ {NULL} : Usable(s)' = Usable(s) \ {r}
      BY <2>4 DEF FreeSecureBuffer, Usable, Held, NamedOnce
    <3>3. r \in Usable(s) /\ r \in Regions
      BY <2>4, <3>2 DEF FreeSecureBuffer, Usable, Held
    <3> QED
      BY <3>1, <3>2, <3>3, Leaves
  <2>5. ASSUME NEW s \in Sessions, HandOff(s) PROVE [Api!Next]_Api!vars
    <3>1. \A t \in Sessions \ {s} : Usable(t)' = Usable(t)
      BY <2>5 DEF HandOff, Usable, Held
    <3>2. handed' \in {handed, handed \cup ({outBuf[s]} \ {NULL})}
      BY <2>5 DEF HandOff, TokenOfOut
    <3>3. Usable(s) = {inBuf[s], outBuf[s]} \ {NULL} /\ Usable(s)' = {inBuf[s]} \ {NULL}
      BY <2>5 DEF HandOff, Usable, Held
    <3>4. CASE outBuf[s] = NULL
      <4> HIDE DEF IInv
      <4>1. handed' = handed /\ Usable(s)' = Usable(s)
        BY <3>2, <3>3, <3>4
      <4> QED
        BY <3>1, <4>1, Invisible
    <3>5. CASE outBuf[s] # NULL
      <4>1. Usable(s)' = Usable(s) \ {outBuf[s]} /\ outBuf[s] \in Usable(s)
        BY <3>3, <3>5 DEF NamedOnce
      <4>2. handed' \in {handed, handed \cup {outBuf[s]}} /\ outBuf[s] \in Regions
        BY <3>2, <3>5
      <4> QED
        BY <3>1, <4>1, <4>2, Leaves
    <3> QED
      BY <3>4, <3>5
  <2>6. ASSUME NEW s \in Sessions, FreeIn(s) PROVE [Api!Next]_Api!vars
    <3>1. handed' = handed /\ \A t \in Sessions \ {s} : Usable(t)' = Usable(t)
      BY <2>6 DEF FreeIn, FreeIfSet, Free, Usable, Held
    <3>2. Usable(s) = {inBuf[s]} \ {NULL} /\ Usable(s)' = {}
      BY <2>6 DEF FreeIn, Usable, Held, Control
    <3>3. CASE inBuf[s] = NULL
      BY <3>1, <3>2, <3>3, Invisible
    <3>4. CASE inBuf[s] # NULL
      BY <3>1, <3>2, <3>4, Leaves
    <3> QED
      BY <3>3, <3>4
  <2>7. ASSUME NEW r \in Regions, Redeem(r) PROVE [Api!Next]_Api!vars
    <3>1. Api!Redeem(r)
      BY <2>7 DEF Redeem, Api!Redeem, Usable, Held
    <3> QED
      BY <3>1 DEF Api!Next
  <2>8. CASE UNCHANGED vars
    BY <2>8 DEF vars, Api!vars, Usable, Held
  <2> QED
    BY <2>1, <2>2, <2>3, <2>4, <2>5, <2>6, <2>7, <2>8 DEF Next, Step
<1> QED
  BY Invariant, <1>1, <1>2, PTL DEF Spec, Api!Spec, ImplementsApi
=============================================================================
