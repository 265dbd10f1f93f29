------------------------ MODULE SecureBuffersV3_proofs ------------------------
(***************************************************************************)
(* Proofs about the SecAPI 3 implementation, for every set of threads and  *)
(* regions and every combination of failing SecAPI calls.                  *)
(***************************************************************************)
EXTENDS SecureBuffersV3, SecureHeap_proofs

(* What the position in a call says about the pointers.                    *)
Control ==
  \A s \in Sessions :
    /\ pc[s] \in {"idle", "alloc_out", "failed", "alloc_in", "undo_alloc"} =>
         inBuf[s] = NULL
    /\ pc[s] \in {"idle", "alloc_out", "failed", "undo_in", "free_in"} =>
         outBuf[s] = NULL
    /\ pc[s] \in {"alloc_in", "copy_in", "returned"} =>
         (outBuf[s] # NULL <=> arg[s].ppOutBuf)
    /\ pc[s] = "copy_in" => inBuf[s] # NULL /\ arg[s].ppInBuf
    /\ pc[s] = "returned" => (inBuf[s] # NULL <=> arg[s].ppInBuf)

Copied ==
  \A s \in Sessions :
    pc[s] = "returned" /\ arg[s].ppInBuf /\ arg[s].pInData => inBuf[s] \in written

IInv == TypeOK /\ Control /\ TokenOfOut /\ Allocated /\ NamedOnce /\ Copied

-----------------------------------------------------------------------------
(* The initial states, with no pointer and nothing allocated, satisfy the  *)
(* inductive invariant.                                                    *)
LEMMA InitIInv == Init => IInv
  BY HeapAssumption DEF Init, IInv, TypeOK, HeapTypeOK, Control, TokenOfOut, Allocated, NamedOnce,
     Copied, Calls, Args, Pointers

(* Every step preserves the inductive invariant.                           *)
LEMMA NextIInv == IInv /\ [Next]_vars => IInv'
<1> SUFFICES ASSUME IInv, [Next]_vars PROVE IInv'
  OBVIOUS
<1> USE HeapAssumption
    DEF IInv, TypeOK, HeapTypeOK, Control, TokenOfOut, Allocated, NamedOnce, Copied,
        Calls, Args, Pointers, Goto, Continue, heap
<1>1. ASSUME NEW s \in Sessions, Allocate(s) PROVE IInv'
  BY <1>1 DEF Allocate
<1>2. ASSUME NEW s \in Sessions, AllocateOut(s) PROVE IInv'
  <2>1. CASE UNCHANGED <<outBuf, heap>>
    BY <1>2, <2>1 DEF AllocateOut
  <2>2. ASSUME NEW r \in Regions, Alloc(r), outBuf' = [outBuf EXCEPT ![s] = r],
               Goto(s, "alloc_in"), pc[s] = "alloc_out", UNCHANGED <<arg, inBuf, token>>,
               arg[s].ppOutBuf
        PROVE IInv'
    BY <2>2 DEF Alloc
  <2> QED
    BY <1>2, <2>1, <2>2 DEF AllocateOut
<1>3. ASSUME NEW s \in Sessions, AllocateIn(s) PROVE IInv'
  <2>1. CASE UNCHANGED <<inBuf, heap>>
    BY <1>3, <2>1 DEF AllocateIn, AllocateInGrant, CopyNext
  <2>2. ASSUME NEW r \in Regions, Alloc(r), inBuf' = [inBuf EXCEPT ![s] = r],
               Goto(s, CopyNext(s)), pc[s] = "alloc_in", UNCHANGED <<arg, outBuf, token>>,
               arg[s].ppInBuf
        PROVE IInv'
    BY <2>2 DEF Alloc, CopyNext
  <2> QED
    BY <1>3, <2>1, <2>2 DEF AllocateIn, AllocateInGrant
<1>4. ASSUME NEW s \in Sessions, CopyInput(s) PROVE IInv'
  BY <1>4 DEF CopyInput
<1>5. ASSUME NEW s \in Sessions, UndoOut(s) PROVE IInv'
  BY <1>5 DEF UndoOut, FreeV3Memory, Free
<1>6. ASSUME NEW s \in Sessions, UndoIn(s) PROVE IInv'
  BY <1>6 DEF UndoIn, FreeV3Memory, Free
<1>7. ASSUME NEW s \in Sessions, GiveUp(s) PROVE IInv'
  BY <1>7 DEF GiveUp
<1>8. ASSUME NEW s \in Sessions, Release(s) PROVE IInv'
  BY <1>8 DEF Release
<1>9. ASSUME NEW s \in Sessions, ToToken(s) PROVE IInv'
  BY <1>9 DEF ToToken
<1>10. ASSUME NEW s \in Sessions, HandOff(s) PROVE IInv'
  BY <1>10 DEF HandOff
<1>11. ASSUME NEW s \in Sessions, FreeIn(s) PROVE IInv'
  BY <1>11 DEF FreeIn, FreeV3Memory, Free
<1>12. ASSUME NEW r \in Regions, Redeem(r) PROVE IInv'
  BY <1>12 DEF Redeem
<1>13. CASE UNCHANGED vars
  BY <1>13 DEF vars
<1> QED
  BY <1>1, <1>2, <1>3, <1>4, <1>5, <1>6, <1>7, <1>8, <1>9, <1>10, <1>11, <1>12, <1>13 DEF Next, Step

(* The inductive invariant holds in every reachable state.                 *)
THEOREM Invariant == Spec => []IInv
BY InitIInv, NextIInv, PTL DEF Spec

-----------------------------------------------------------------------------
(* Every variable keeps its type.                                          *)
THEOREM TypeCorrect == Spec => []TypeOK
<1>1. IInv => TypeOK
  BY DEF IInv
<1> QED
  BY Invariant, <1>1, PTL

(* No thread ever has a pointer to freed secure memory, and no delivered   *)
(* token stands for any, whatever fails and in whatever order.             *)
THEOREM MemorySafe == Spec => []NoDangling
<1>1. IInv => NoDangling
  <2> SUFFICES ASSUME IInv, NEW r \in InUse PROVE r \in live
    BY DEF NoDangling
  <2>1. CASE r \in handed
    BY <2>1 DEF IInv, Allocated
  <2>2. ASSUME NEW s \in Sessions, r \in Held(s) PROVE r \in live
    BY <2>2 DEF IInv, Allocated, Held
  <2> QED
    BY <2>1, <2>2 DEF InUse
<1> QED
  BY Invariant, <1>1, PTL

(* Threads never share a region, with one another or with the consumer of  *)
(* a token.                                                                *)
THEOREM OwnersExclusive == Spec => []Exclusive
<1>1. IInv => Exclusive
  BY DEF IInv, NamedOnce, Exclusive, Held
<1> QED
  BY Invariant, <1>1, PTL

(* Allocation returns with everything or with nothing.                     *)
THEOREM AllocationAtomic == Spec => []AllOrNothing
<1>1. IInv => AllOrNothing
  BY DEF IInv, Control, Copied, AllOrNothing, Held
<1> QED
  BY Invariant, <1>1, PTL

-----------------------------------------------------------------------------
(* When release is always given a place for the token, nothing allocated   *)
(* drops out of sight: each action either keeps a region's name, passes it *)
(* on, or frees it.                                                        *)
THEOREM NothingLeaks == ASSUME DataOut \subseteq {TRUE} PROVE Spec => []NoLeak
<1> DEFINE Named(r) == \/ r \in handed \cup lost
                       \/ \E s \in Sessions : r \in {inBuf[s], outBuf[s]}
           Tracked == \A r \in live : Named(r)
<1>1. Init => Tracked
  BY DEF Init
<1>2. IInv /\ Tracked /\ [Next]_vars => Tracked'
  <2> SUFFICES ASSUME IInv, Tracked, [Next]_vars, NEW r \in live' PROVE Named(r)'
    OBVIOUS
  <2> USE HeapAssumption DEF IInv, TypeOK, HeapTypeOK, Pointers, Goto, Continue, heap
  <2>1. ASSUME NEW s \in Sessions, Allocate(s) \/ CopyInput(s) \/ GiveUp(s) \/ Release(s)
        PROVE Named(r)'
    BY <2>1 DEF Allocate, CopyInput, GiveUp, Release
  <2>2. ASSUME NEW s \in Sessions, AllocateOut(s) PROVE Named(r)'
    BY <2>2 DEF AllocateOut, Alloc, Control
  <2>3. ASSUME NEW s \in Sessions, AllocateIn(s) PROVE Named(r)'
    BY <2>3 DEF AllocateIn, AllocateInGrant, CopyNext, Alloc, Control
  <2>4. ASSUME NEW s \in Sessions, UndoOut(s) PROVE Named(r)'
    BY <2>4 DEF UndoOut, FreeV3Memory, Free
  <2>5. ASSUME NEW s \in Sessions, UndoIn(s) \/ FreeIn(s) PROVE Named(r)'
    BY <2>5 DEF UndoIn, FreeIn, FreeV3Memory, Free
  <2>6. ASSUME NEW s \in Sessions, ToToken(s) PROVE Named(r)'
    BY <2>6 DEF ToToken
  <2>7. ASSUME NEW s \in Sessions, HandOff(s) PROVE Named(r)'
    <3>1. handed' = handed \cup ({token[s]} \ {NULL})
      BY <2>7 DEF HandOff
    <3>2. r \in live /\ r # NULL /\ Named(r)
      BY <2>7 DEF HandOff
    <3>3. CASE r = outBuf[s]
      BY <3>1, <3>2, <3>3, <2>7 DEF HandOff, TokenOfOut
    <3>4. CASE r # outBuf[s]
      BY <3>1, <3>2, <3>4, <2>7 DEF HandOff
    <3> QED
      BY <3>3, <3>4
  <2>8. ASSUME NEW q \in Regions, Redeem(q) PROVE Named(r)'
    BY <2>8 DEF Redeem
  <2>9. CASE UNCHANGED vars
    BY <2>9 DEF vars
  <2> QED
    BY <2>1, <2>2, <2>3, <2>4, <2>5, <2>6, <2>7, <2>8, <2>9 DEF Next, Step
<1>3. IInv /\ Tracked => NoLeak
  BY HeapAssumption DEF IInv, TypeOK, HeapTypeOK, NoLeak, InUse, Held
<1> QED
  BY Invariant, <1>1, <1>2, <1>3, PTL DEF Spec

-----------------------------------------------------------------------------
(* Whatever the interleaving of the calls, callers see the transactions of *)
(* SecureBufferApi.                                                        *)
THEOREM Refinement == Spec => ImplementsApi
<1>1. Init => Api!Init
  BY DEF Init, Api!Init, Usable
<1>2. IInv /\ IInv' /\ [Next]_vars => [Api!Next]_Api!vars
  <2> SUFFICES ASSUME IInv, IInv', [Next]_vars PROVE [Api!Next]_Api!vars
    OBVIOUS
  <2>t. HeapTypeOK' /\ NamedOnce'
    BY DEF IInv, TypeOK
  <2> USE HeapAssumption DEF IInv, TypeOK, HeapTypeOK, Pointers, Calls, Goto, Continue, heap
  <2>1. ASSUME NEW s \in Sessions, Allocate(s) \/ AllocateOut(s) \/ UndoOut(s) \/ UndoIn(s)
        PROVE [Api!Next]_Api!vars
    <3>a. handed' = handed
      BY <2>1 DEF Allocate, AllocateOut, UndoOut, UndoIn, Alloc, FreeV3Memory, Free
    <3>b. \A t \in Sessions \ {s} :
            pc'[t] = pc[t] /\ inBuf'[t] = inBuf[t] /\ outBuf'[t] = outBuf[t]
      BY <2>1 DEF Allocate, AllocateOut, UndoOut, UndoIn
    <3>1. handed' = handed /\ \A t \in Sessions \ {s} : Usable(t)' = Usable(t)
      BY <3>a, <3>b, Others
    <3>2. Usable(s) = {} /\ Usable(s)' = {}
      BY <2>1 DEF Allocate, AllocateOut, UndoOut, UndoIn, Usable
    <3> QED
      BY <3>1, <3>2, Invisible
  <2>2. ASSUME NEW s \in Sessions, AllocateIn(s) \/ CopyInput(s)
        PROVE [Api!Next]_Api!vars
    <3>a. handed' = handed
      BY <2>2 DEF AllocateIn, AllocateInGrant, CopyInput, Alloc
    <3>b. \A t \in Sessions \ {s} :
            pc'[t] = pc[t] /\ inBuf'[t] = inBuf[t] /\ outBuf'[t] = outBuf[t]
      BY <2>2 DEF AllocateIn, AllocateInGrant, CopyInput
    <3>1. handed' = handed /\ \A t \in Sessions \ {s} : Usable(t)' = Usable(t)
      BY <3>a, <3>b, Others
    <3>2. Usable(s) = {} /\ Usable(s)' \in {{}, Held(s)'}
      BY <2>2 DEF AllocateIn, AllocateInGrant, CopyNext, CopyInput, Usable
    <3> QED
      BY <2>t, <3>1, <3>2, Invisible, Returns
  <2>3. ASSUME NEW s \in Sessions, GiveUp(s) \/ Release(s) \/ ToToken(s)
        PROVE [Api!Next]_Api!vars
    <3>a. handed' = handed
      BY <2>3 DEF GiveUp, Release, ToToken
    <3>b. \A t \in Sessions \ {s} :
            pc'[t] = pc[t] /\ inBuf'[t] = inBuf[t] /\ outBuf'[t] = outBuf[t]
      BY <2>3 DEF GiveUp, Release, ToToken
    <3>1. handed' = handed /\ \A t \in Sessions \ {s} : Usable(t)' = Usable(t)
      BY <3>a, <3>b, Others
    <3>2. Usable(s)' = Usable(s)
      BY <2>3 DEF GiveUp, Release, ToToken, Usable, Held
    <3> QED
      BY <3>1, <3>2, Invisible
  <2>4. ASSUME NEW s \in Sessions, HandOff(s) PROVE [Api!Next]_Api!vars
    <3>a. \A t \in Sessions \ {s} :
            pc'[t] = pc[t] /\ inBuf'[t] = inBuf[t] /\ outBuf'[t] = outBuf[t]
      BY <2>4 DEF HandOff
    <3>1. \A t \in Sessions \ {s} : Usable(t)' = Usable(t)
      BY <3>a, Others
    <3>2. handed' \in {handed, handed \cup ({outBuf[s]} \ {NULL})}
      BY <2>4 DEF HandOff, TokenOfOut
    <3>3. Usable(s) = {inBuf[s], outBuf[s]} \ {NULL} /\ Usable(s)' = {inBuf[s]} \ {NULL}
      BY <2>4 DEF HandOff, Usable, Held
    <3>4. CASE outBuf[s] = NULL
      <4> HIDE DEF IInv
      <4>1. handed' = handed /\ Usable(s)' = Usable(s)
        BY <3>2, <3>3, <3>4
      <4> QED
        BY <3>1, <4>1, Invisible
    <3>5. CASE outBuf[s] # NULL
      <4>1. Usable(s)' = Usable(s) \ {outBuf[s]} /\ outBuf[s] \in Usable(s)
        BY <3>3, <3>5 DEF NamedOnce
      <4>2. handed' \in {handed, handed \cup {outBuf[s]}} /\ outBuf[s] \in Regions
        BY <3>2, <3>5
      <4> QED
        BY <3>1, <4>1, <4>2, Leaves
    <3> QED
      BY <3>4, <3>5
  <2>5. ASSUME NEW s \in Sessions, FreeIn(s) PROVE [Api!Next]_Api!vars
    <3>a. handed' = handed
      BY <2>5 DEF FreeIn, FreeV3Memory, Free
    <3>b. \A t \in Sessions \ {s} :
            pc'[t] = pc[t] /\ inBuf'[t] = inBuf[t] /\ outBuf'[t] = outBuf[t]
      BY <2>5 DEF FreeIn
    <3>1. handed' = handed /\ \A t \in Sessions \ {s} : Usable(t)' = Usable(t)
      BY <3>a, <3>b, Others
    <3>2. Usable(s) = {inBuf[s]} \ {NULL} /\ Usable(s)' = {}
      BY <2>5 DEF FreeIn, Usable, Held, Control
    <3>3. CASE inBuf[s] = NULL
      BY <3>1, <3>2, <3>3, Invisible
    <3>4. CASE inBuf[s] # NULL
      BY <3>1, <3>2, <3>4, Leaves
    <3> QED
      BY <3>3, <3>4
  <2>6. ASSUME NEW r \in Regions, Redeem(r) PROVE [Api!Next]_Api!vars
    <3>1. Api!Redeem(r)
      BY <2>6 DEF Redeem, Api!Redeem, Usable, Held
    <3> QED
      BY <3>1 DEF Api!Next
  <2>7. CASE UNCHANGED vars
    BY <2>7 DEF vars, Api!vars, Usable, Held
  <2> QED
    BY <2>1, <2>2, <2>3, <2>4, <2>5, <2>6, <2>7 DEF Next, Step
<1> QED
  BY Invariant, <1>1, <1>2, PTL DEF Spec, Api!Spec, ImplementsApi

=============================================================================
