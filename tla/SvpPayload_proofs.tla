--------------------------- MODULE SvpPayload_proofs ---------------------------
(***************************************************************************)
(* Proofs about svppay, for every set of elements and contexts.            *)
(*                                                                         *)
(* The invariant has two halves that hardly meet: LifeInv, of the state    *)
(* changes and the contexts, and FlowInv, of the mode and the buffers.     *)
(***************************************************************************)
EXTENDS SvpPayload, TLAPS

(* The streaming thread runs while the element is in PAUSED, and a context *)
(* is on its way out only while it is not.                                 *)
Threads ==
  \A e \in Elements :
    /\ pc[e] # "idle" => state[e] = "PAUSED"
    /\ change[e] # "none" => state[e] # "PAUSED"

(* The context an element has, unless it was just freed, is its own, and   *)
(* the library has not refused to take it back: nothing asked it to yet.   *)
Contexted ==
  /\ refused \subseteq liveCtx
  /\ \A c \in liveCtx \ refused : \E e \in Elements : change[e] # "clear" /\ ctx[e] = c
  /\ \A e \in Elements : change[e] # "clear" => ctx[e] \in (liveCtx \ refused) \cup {NULL}
  /\ \A e, f \in Elements : e # f /\ ctx[e] = ctx[f] /\ ctx[e] # NULL
       => change[e] = "clear" \/ change[f] = "clear"

LifeInv == Threads /\ Contexted

(* The modes that the preparation of a buffer and the decision what to do  *)
(* with it have met.                                                       *)
ModesMetBy(e) ==
  /\ Handling(e) => flag[e] \in seen[e]
  /\ Handling(e) /\ out[e] = "copy" => ~secure[e] /\ FALSE \in seen[e]
  /\ Handling(e) /\ out[e] = "same" => secure[e] \/ TRUE \in seen[e]
  /\ pc[e] = "transform" => ~secure[e] /\ FALSE \in seen[e]

(* OutcomeExplained, of one element.                                       *)
ExplainedBy(e) ==
  /\ pc[e] = "passed" => secure[e] \/ TRUE \in seen[e]
  /\ pc[e] \in {"transformed", "failed"} => ~secure[e] /\ FALSE \in seen[e]
  /\ pc[e] = "refused" => ~secure[e] /\ seen[e] = BOOLEAN
  /\ pc[e] = "transformed" /\ out[e] = "same" => seen[e] = BOOLEAN

(* An element keeps the copy of the mode while it calls the store; when    *)
(* the call succeeded and no other has since, the store holds this copy.   *)
AskedBy(e) ==
  /\ asked[e] # NULL <=> pc[e] \in {"asking", "told", "denied"}
  /\ pc[e] = "told" /\ writer = e => store = asked[e]
  /\ pc[e] = "told" \/ cached[e] # NULL => writer # NULL
  /\ pc[e] # "told" /\ writer = e => cached[e] = store

BufferInv == \A e \in Elements : ModesMetBy(e) /\ ExplainedBy(e)
StoreInv == \A e \in Elements : AskedBy(e)

IInv == TypeOK /\ LifeInv /\ BufferInv /\ StoreInv

-----------------------------------------------------------------------------
(* svp_payload_init gives each element a context of its own, or none.      *)
LEMMA InitIInv == Init => IInv
<1> SUFFICES ASSUME Init PROVE IInv
  OBVIOUS
<1>1. TypeOK
  BY DEF Init, InitContext, TypeOK, Places
<1>2. Threads /\ Contexted
  BY PayloadAssumption DEF Init, InitContext, Threads, Contexted
<1>3. BufferInv
  BY DEF Init, BufferInv, ModesMetBy, ExplainedBy, Handling
<1>4. StoreInv
  BY PayloadAssumption DEF Init, StoreInv, AskedBy
<1> QED
  BY <1>1, <1>2, <1>3, <1>4 DEF IInv, LifeInv

(* A state change concerns neither the mode nor a buffer.                  *)
LEMMA FlowKept ==
  ASSUME BufferInv, StoreInv, UNCHANGED <<flag, mode, pc, buffer, asked>>
  PROVE  BufferInv' /\ StoreInv'
BY DEF BufferInv, StoreInv, ModesMetBy, ExplainedBy, AskedBy, Handling, mode, buffer

(* A step of the streaming thread within a buffer concerns no state        *)
(* change, and neither does a caps query.                                  *)
LEMMA LifeKept ==
  ASSUME TypeOK, LifeInv, UNCHANGED lifecycle,
         \A e \in Elements : pc'[e] # "idle" => pc[e] # "idle" \/ state[e] = "PAUSED"
  PROVE  LifeInv'
<1>1. Threads'
  BY DEF LifeInv, Threads, lifecycle
<1>2. Contexted'
  BY DEF LifeInv, Contexted, lifecycle
<1> QED
  BY <1>1, <1>2 DEF LifeInv

(* What does not touch the store, the caches or a call keeps StoreInv.     *)
LEMMA StoreKept ==
  ASSUME StoreInv, UNCHANGED <<mode, asked>>,
         \A e \in Elements : \A p \in {"asking", "told", "denied"} : pc'[e] = p <=> pc[e] = p
  PROVE  StoreInv'
BY DEF StoreInv, AskedBy, mode

-----------------------------------------------------------------------------
(* Every state change preserves the inductive invariant.                   *)
LEMMA ChangeIInv ==
  ASSUME IInv, NEW e \in Elements,
         \/ NullToReady(e) \/ ReadyToPaused(e) \/ PausedToReady(e)
         \/ ReadyToNull(e) \/ FreeContext(e) \/ ClearContext(e)
  PROVE  IInv'
<1> USE PayloadAssumption DEF IInv, LifeInv
<1>0. BufferInv' /\ StoreInv'
  <2>1. UNCHANGED <<flag, mode, pc, buffer, asked>>
    BY DEF NullToReady, ReadyToPaused, PausedToReady, ReadyToNull, FreeContext, ClearContext
  <2> QED
    BY <2>1, FlowKept
<1>1. CASE NullToReady(e)
  <2>1. TypeOK'
    BY <1>1 DEF TypeOK, NullToReady, GetContext, mode, buffer
  <2>2. Threads'
    BY <1>1 DEF TypeOK, Threads, NullToReady, GetContext
  <2>3. Contexted'
    BY <1>1 DEF TypeOK, Threads, Contexted, NullToReady, GetContext
  <2> QED
    BY <1>0, <2>1, <2>2, <2>3
<1>2. CASE ReadyToPaused(e)
  <2>1. TypeOK'
    BY <1>2 DEF TypeOK, ReadyToPaused, mode, buffer
  <2>2. Threads'
    BY <1>2 DEF TypeOK, Threads, ReadyToPaused
  <2>3. Contexted'
    BY <1>2 DEF TypeOK, Contexted, ReadyToPaused
  <2> QED
    BY <1>0, <2>1, <2>2, <2>3
<1>3. CASE PausedToReady(e)
  <2>1. TypeOK'
    BY <1>3 DEF TypeOK, PausedToReady, mode, buffer
  <2>2. Threads'
    BY <1>3 DEF TypeOK, Threads, PausedToReady
  <2>3. Contexted'
    BY <1>3 DEF TypeOK, Contexted, PausedToReady
  <2> QED
    BY <1>0, <2>1, <2>2, <2>3
<1>4. CASE ReadyToNull(e)
  <2>1. TypeOK'
    BY <1>4 DEF TypeOK, ReadyToNull, mode, buffer
  <2>2. Threads'
    BY <1>4 DEF TypeOK, Threads, ReadyToNull
  <2>3. Contexted'
    BY <1>4 DEF TypeOK, Contexted, ReadyToNull
  <2> QED
    BY <1>0, <2>1, <2>2, <2>3
<1>5. CASE FreeContext(e)
  <2>1. TypeOK'
    BY <1>5 DEF TypeOK, FreeContext, mode, buffer
  <2>2. Threads'
    BY <1>5 DEF TypeOK, Threads, FreeContext
  <2>3. Contexted'
    BY <1>5 DEF TypeOK, Contexted, FreeContext
  <2> QED
    BY <1>0, <2>1, <2>2, <2>3
<1>6. CASE ClearContext(e)
  <2>1. TypeOK'
    BY <1>6 DEF TypeOK, ClearContext, mode, buffer
  <2>2. Threads'
    BY <1>6 DEF TypeOK, Threads, ClearContext
  <2>3. Contexted'
    BY <1>6 DEF TypeOK, Contexted, ClearContext
  <2> QED
    BY <1>0, <2>1, <2>2, <2>3
<1> QED
  BY <1>1, <1>2, <1>3, <1>4, <1>5, <1>6

(* A caps query, whatever the streaming thread is doing.                   *)
LEMMA TransformCapsIInv ==
  ASSUME IInv, NEW e \in Elements, NEW d \in BOOLEAN, TransformCaps(e, d)
  PROVE  IInv'
<1> USE DEF IInv
<1>1. TypeOK'
  BY DEF TypeOK, TransformCaps, lifecycle, mode
<1>2. LifeInv' /\ StoreInv'
  BY LifeKept, StoreKept DEF TransformCaps
<1>3. UNCHANGED <<pc, out, secure>>
  BY DEF TransformCaps
<1>4. \A f \in Elements \ {e} : flag'[f] = flag[f] /\ seen'[f] = seen[f]
  BY DEF TypeOK, TransformCaps
<1>5. /\ Handling(e) => flag'[e] \in seen'[e]
      /\ ~Handling(e) => seen'[e] = seen[e]
      /\ seen[e] \subseteq seen'[e]
  BY DEF TypeOK, TransformCaps
<1>6. ModesMetBy(e)' /\ ExplainedBy(e)'
  BY <1>3, <1>5 DEF BufferInv, ModesMetBy, ExplainedBy, Handling, Ended
<1>7. ASSUME NEW f \in Elements \ {e} PROVE ModesMetBy(f)' /\ ExplainedBy(f)'
  BY <1>3, <1>4 DEF BufferInv, ModesMetBy, ExplainedBy, Handling
<1> QED
  BY <1>1, <1>2, <1>6, <1>7 DEF BufferInv

(* svpPayloadPrepareOutputBuffer.                                          *)
LEMMA PrepareIInv ==
  ASSUME IInv, NEW e \in Elements, PrepareOutputBuffer(e)
  PROVE  IInv'
<1> USE DEF IInv
<1>1. TypeOK'
  BY DEF TypeOK, PrepareOutputBuffer, lifecycle, mode, Places
<1>a. pc[e] = "idle" /\ pc'[e] = "prepared" /\ state[e] = "PAUSED"
      /\ \A f \in Elements \ {e} : pc'[f] = pc[f]
  BY DEF TypeOK, PrepareOutputBuffer
<1>2. LifeInv' /\ StoreInv'
  <2>1. UNCHANGED <<lifecycle, mode, asked>>
    BY DEF PrepareOutputBuffer
  <2> QED
    BY <1>a, <2>1, LifeKept, StoreKept
<1>3. PICK s \in BOOLEAN :
        /\ secure' = [secure EXCEPT ![e] = s]
        /\ out' = [out EXCEPT ![e] = IF s \/ flag[e] THEN "same" ELSE "copy"]
  BY DEF PrepareOutputBuffer
<1>4. /\ flag' = flag /\ seen'[e] = {flag[e]} /\ flag[e] \in BOOLEAN
      /\ secure'[e] = s /\ out'[e] = IF s \/ flag[e] THEN "same" ELSE "copy"
  BY <1>3 DEF TypeOK, PrepareOutputBuffer
<1>5. ModesMetBy(e)' /\ ExplainedBy(e)'
  <2>1. CASE s \/ flag[e]
    BY <1>a, <1>4, <2>1 DEF ModesMetBy, ExplainedBy
  <2>2. CASE ~s /\ ~flag[e]
    BY <1>a, <1>4, <2>2 DEF ModesMetBy, ExplainedBy
  <2> QED
    BY <2>1, <2>2
<1>6. ASSUME NEW f \in Elements \ {e} PROVE ModesMetBy(f)' /\ ExplainedBy(f)'
  <2>1. /\ pc'[f] = pc[f] /\ seen'[f] = seen[f] /\ flag'[f] = flag[f]
        /\ secure'[f] = secure[f] /\ out'[f] = out[f]
    BY <1>3 DEF TypeOK, PrepareOutputBuffer
  <2> QED
    BY <2>1 DEF BufferInv, ModesMetBy, ExplainedBy, Handling
<1> QED
  BY <1>1, <1>2, <1>5, <1>6 DEF BufferInv

(* svpPayloadUpdateDecryptToHost and the call it makes.                    *)
LEMMA UpdateIInv ==
  ASSUME IInv, NEW e \in Elements,
         UpdateDecryptToHost(e) \/ StoreAnswers(e) \/ UpdateReturns(e)
  PROVE  IInv'
<1> USE PayloadAssumption DEF IInv
<1>1. TypeOK'
  <2>1. CASE UpdateDecryptToHost(e)
    BY <2>1 DEF TypeOK, UpdateDecryptToHost, lifecycle, mode, buffer, Places
  <2>2. CASE StoreAnswers(e)
    <3>1. asked[e] \in BOOLEAN
      BY <2>2 DEF StoreAnswers, TypeOK, StoreInv, AskedBy
    <3> QED
      BY <2>2, <3>1 DEF TypeOK, StoreAnswers, lifecycle, buffer, Places
  <2>3. CASE UpdateReturns(e)
    BY <2>3 DEF TypeOK, UpdateReturns, lifecycle, buffer, Places
  <2> QED
    BY <2>1, <2>2, <2>3
<1>2. UNCHANGED <<lifecycle, flag, buffer>>
  BY DEF UpdateDecryptToHost, StoreAnswers, UpdateReturns, mode, buffer
<1>3. /\ pc[e] \in {"prepared", "asking", "told", "denied"}
      /\ pc'[e] \in {"asking", "told", "denied", "decide"}
      /\ \A f \in Elements \ {e} : pc'[f] = pc[f]
  BY DEF TypeOK, UpdateDecryptToHost, StoreAnswers, UpdateReturns
<1>4. LifeInv'
  <2>1. \A f \in Elements : pc'[f] # "idle" => pc[f] # "idle"
    BY <1>3
  <2> QED
    BY <1>2, <2>1, LifeKept
<1>5. BufferInv'
  <2>1. ModesMetBy(e)' /\ ExplainedBy(e)'
    BY <1>2, <1>3 DEF BufferInv, ModesMetBy, ExplainedBy, Handling, Ended, buffer
  <2>2. ASSUME NEW f \in Elements \ {e} PROVE ModesMetBy(f)' /\ ExplainedBy(f)'
    BY <1>2, <1>3 DEF BufferInv, ModesMetBy, ExplainedBy, Handling, buffer
  <2> QED
    BY <2>1, <2>2 DEF BufferInv
<1>6. StoreInv'
  <2>1. CASE UpdateDecryptToHost(e)
    BY <2>1 DEF TypeOK, UpdateDecryptToHost, StoreInv, AskedBy, mode
  <2>2. CASE StoreAnswers(e)
    BY <2>2 DEF TypeOK, StoreAnswers, StoreInv, AskedBy
  <2>3. CASE UpdateReturns(e)
    BY <2>3 DEF TypeOK, UpdateReturns, StoreInv, AskedBy
  <2> QED
    BY <2>1, <2>2, <2>3
<1> QED
  BY <1>1, <1>4, <1>5, <1>6

(* The rest of svpPayloadTransform and its return.                         *)
LEMMA FinishIInv ==
  ASSUME IInv, NEW e \in Elements, Decide(e) \/ TransformFromClear(e) \/ NextBuffer(e)
  PROVE  IInv'
<1> USE DEF IInv
<1>1. TypeOK'
  <2>1. CASE Decide(e)
    BY <2>1 DEF TypeOK, Decide, lifecycle, mode, buffer, Places, Ended
  <2>2. CASE TransformFromClear(e)
    BY <2>2 DEF TypeOK, TransformFromClear, lifecycle, mode, buffer, Places, Ended
  <2>3. CASE NextBuffer(e)
    BY <2>3 DEF TypeOK, NextBuffer, lifecycle, mode, Places
  <2> QED
    BY <2>1, <2>2, <2>3
<1>2. UNCHANGED <<lifecycle, flag, mode, asked>>
  BY DEF Decide, TransformFromClear, NextBuffer
<1>3. /\ pc[e] \in {"decide", "transform"} \cup Ended
      /\ pc'[e] \in {"idle", "transform"} \cup Ended
      /\ \A f \in Elements \ {e} : pc'[f] = pc[f]
  BY DEF TypeOK, Decide, TransformFromClear, NextBuffer, Ended
<1>4. LifeInv' /\ StoreInv'
  <2>1. \A f \in Elements : pc'[f] # "idle" => pc[f] # "idle"
    BY <1>3 DEF Ended
  <2>2. \A f \in Elements : \A p \in {"asking", "told", "denied"} : pc'[f] = p <=> pc[f] = p
    BY <1>3 DEF Ended
  <2> QED
    BY <1>2, <2>1, <2>2, LifeKept, StoreKept
<1>5. ASSUME NEW f \in Elements \ {e} PROVE ModesMetBy(f)' /\ ExplainedBy(f)'
  <2>1. /\ pc'[f] = pc[f] /\ seen'[f] = seen[f] /\ flag'[f] = flag[f]
        /\ secure'[f] = secure[f] /\ out'[f] = out[f]
    BY DEF TypeOK, Decide, TransformFromClear, NextBuffer, buffer
  <2> QED
    BY <2>1 DEF BufferInv, ModesMetBy, ExplainedBy, Handling
<1>6. /\ flag[e] \in BOOLEAN /\ secure[e] \in BOOLEAN /\ seen[e] \subseteq BOOLEAN
      /\ out[e] \in {"same", "copy"} /\ ModesMetBy(e)
  BY DEF TypeOK, BufferInv
<1>7. ModesMetBy(e)' /\ ExplainedBy(e)'
  <2>1. CASE Decide(e)
    <3>1. /\ UNCHANGED <<secure, out, seen, flag>> /\ Handling(e)
          /\ pc'[e] = IF secure[e] \/ flag[e]
                      THEN IF out[e] = "same" THEN "passed" ELSE "refused"
                      ELSE "transform"
      BY <2>1 DEF TypeOK, Decide, Handling, Ended, buffer
    <3>2. CASE secure[e] \/ flag[e]
      <4>1. CASE out[e] = "same"
        BY <1>6, <3>1, <3>2, <4>1 DEF ModesMetBy, ExplainedBy, Handling, Ended
      <4>2. CASE out[e] = "copy"
        <5>1. pc'[e] = "refused" /\ ~secure[e] /\ FALSE \in seen[e] /\ TRUE \in seen[e]
          BY <1>6, <3>1, <3>2, <4>2 DEF ModesMetBy
        <5> QED
          BY <1>6, <3>1, <5>1 DEF ModesMetBy, ExplainedBy, Handling, Ended
      <4> QED
        BY <1>6, <4>1, <4>2
    <3>3. CASE ~secure[e] /\ ~flag[e]
      <4>1. pc'[e] = "transform" /\ FALSE \in seen[e]
        BY <1>6, <3>1, <3>3 DEF ModesMetBy
      <4> QED
        BY <1>6, <3>1, <3>3, <4>1 DEF ModesMetBy, ExplainedBy
    <3> QED
      BY <1>6, <3>2, <3>3
  <2>2. CASE TransformFromClear(e)
    <3>1. /\ UNCHANGED <<secure, out, seen, flag>> /\ Handling(e) /\ pc[e] = "transform"
          /\ pc'[e] \in {"transformed", "failed"}
      BY <2>2 DEF TypeOK, TransformFromClear, Handling, Ended, buffer
    <3>2. ~secure[e] /\ FALSE \in seen[e] /\ (out[e] = "same" => TRUE \in seen[e])
      BY <1>6, <3>1 DEF ModesMetBy
    <3> QED
      BY <1>6, <3>1, <3>2 DEF ModesMetBy, ExplainedBy, Handling, Ended
  <2>3. CASE NextBuffer(e)
    <3>1. pc'[e] = "idle"
      BY <2>3 DEF TypeOK, NextBuffer
    <3> QED
      BY <3>1 DEF ModesMetBy, ExplainedBy, Handling
  <2> QED
    BY <2>1, <2>2, <2>3
<1> QED
  BY <1>1, <1>4, <1>5, <1>7 DEF BufferInv

(* Every step preserves the inductive invariant.                           *)
LEMMA NextIInv == IInv /\ [Next]_vars => IInv'
<1> SUFFICES ASSUME IInv, [Next]_vars PROVE IInv'
  OBVIOUS
<1>1. CASE Next
  BY <1>1, ChangeIInv, TransformCapsIInv, PrepareIInv, UpdateIInv, FinishIInv DEF Next
<1>2. CASE UNCHANGED vars
  <2>1. TypeOK'
    BY <1>2 DEF IInv, TypeOK, vars, lifecycle, mode, buffer
  <2>2. LifeInv'
    BY <1>2, LifeKept DEF IInv, vars
  <2>3. BufferInv' /\ StoreInv'
    BY <1>2, FlowKept DEF IInv, vars
  <2> QED
    BY <2>1, <2>2, <2>3 DEF IInv
<1> QED
  BY <1>1, <1>2

(* The strengthened invariant holds in every state.                        *)
THEOREM Invariant == Spec => []IInv
  BY InitIInv, NextIInv, PTL DEF Spec

(* Every variable of the elements and of the store keeps its type.         *)
THEOREM TypeCorrect == Spec => []TypeOK
<1>1. IInv => TypeOK
  BY DEF IInv
<1> QED
  BY <1>1, Invariant, PTL

(* svpPayloadChangeState neither frees a context twice nor loses one that  *)
(* the library would take back, and the streaming thread never has one     *)
(* that was given back.                                                    *)
THEOREM ContextsOwned == Spec => []ContextOwnership
<1>1. IInv => ContextOwnership
  <2> SUFFICES ASSUME IInv PROVE ContextOwnership
    OBVIOUS
  <2> USE DEF IInv, LifeInv
  <2>1. NULL \notin liveCtx
    BY PayloadAssumption DEF TypeOK
  <2>2. liveCtx = refused \cup {ctx[e] : e \in Having}
    <3>1. ASSUME NEW c \in liveCtx \ refused PROVE \E e \in Having : ctx[e] = c
      BY <2>1, <3>1 DEF Contexted, Having
    <3>2. ASSUME NEW e \in Having PROVE ctx[e] \in liveCtx
      BY DEF Contexted, Having
    <3> QED
      BY <3>1, <3>2 DEF Contexted
  <2>3. \A e \in Having : ctx[e] \notin refused
    BY DEF Contexted, Having
  <2>4. \A e, f \in Having : e # f => ctx[e] # ctx[f]
    BY DEF Contexted, Having
  <2>5. \A e \in Elements : pc[e] # "idle" => ctx[e] = NULL \/ e \in Having
    BY DEF Threads, Having
  <2> QED
    BY <2>2, <2>3, <2>4, <2>5 DEF ContextOwnership
<1> QED
  BY <1>1, Invariant, PTL

(* What becomes of a buffer is explained by the modes it met, however caps *)
(* queries interleave with svpPayloadTransform.                            *)
THEOREM OutcomesExplained == Spec => []OutcomeExplained
<1>1. IInv => OutcomeExplained
  BY DEF IInv, BufferInv, ExplainedBy, OutcomeExplained
<1> QED
  BY <1>1, Invariant, PTL

(* svpPayloadUpdateDecryptToHost skips no set of the last writer that was  *)
(* needed, whichever sets of the store failed.                             *)
THEOREM WriterKnows == Spec => []WriterKnowsStore
<1>1. IInv => WriterKnowsStore
  BY DEF IInv, StoreInv, AskedBy, WriterKnowsStore
<1> QED
  BY <1>1, Invariant, PTL

-----------------------------------------------------------------------------
(* The calls of the elements are calls of StoreApi, with one value from    *)
(* start to return, for any number of elements.                            *)
LEMMA StepsAsApi == IInv /\ [Next]_vars => [Api!Next]_(Api!apiVars)
<1> SUFFICES ASSUME IInv, [Next]_vars PROVE [Api!Next]_(Api!apiVars)
  OBVIOUS
<1> USE PayloadAssumption
<1> DEFINE req(a) == [e \in Elements |-> IF a[e] = NULL THEN NULL ELSE SetRequest(a[e])]
           ans(p, a) == [e \in Elements |-> IF p[e] = "told" THEN a[e]
                                            ELSE IF p[e] = "denied" THEN Failed ELSE NULL]
           stored(s) == [n \in {"decryptToHost"} |-> s]
<1>a. TypeOK /\ StoreInv
  BY DEF IInv
<1>s. ASSUME store' = store, asked' = asked,
             \A e \in Elements : \A p \in {"told", "denied"} : pc'[e] = p <=> pc[e] = p
      PROVE  UNCHANGED Api!apiVars
  <2>1. ans(pc', asked') = ans(pc, asked)
    BY <1>s
  <2> QED
    BY <1>s, <2>1 DEF Api!apiVars
<1>1. ASSUME NEW e \in Elements, UpdateDecryptToHost(e)
      PROVE  [Api!Next]_(Api!apiVars)
  <2>1. CASE UNCHANGED asked
    <3>1. store' = store
      BY <1>1 DEF UpdateDecryptToHost, mode
    <3>2. \A f \in Elements : \A p \in {"told", "denied"} : pc'[f] = p <=> pc[f] = p
      BY <1>1, <1>a DEF UpdateDecryptToHost, TypeOK
    <3> QED
      BY <1>s, <2>1, <3>1, <3>2
  <2>2. CASE asked' = [asked EXCEPT ![e] = flag[e]]
    <3>1. store' = store /\ flag[e] \in BOOLEAN
      BY <1>1, <1>a DEF UpdateDecryptToHost, mode, TypeOK
    <3>2. \A f \in Elements : \A p \in {"told", "denied"} : pc'[f] = p <=> pc[f] = p
      BY <1>1, <1>a DEF UpdateDecryptToHost, TypeOK
    <3>3. asked[e] = NULL
      BY <1>1, <1>a DEF UpdateDecryptToHost, StoreInv, AskedBy
    <3>4. req(asked') = [req(asked) EXCEPT ![e] = SetRequest(flag[e])]
      BY <2>2, <1>a, <3>1 DEF TypeOK
    <3>5. ans(pc', asked') = ans(pc, asked)
      <4>1. ASSUME NEW f \in Elements, pc[f] = "told" PROVE asked'[f] = asked[f]
        BY <1>1, <1>a, <2>2, <4>1 DEF UpdateDecryptToHost, TypeOK
      <4> QED
        BY <3>2, <4>1
    <3>6. req(asked)[e] = NULL
      BY <3>3
    <3>7. PICK r \in SetRequests : r = SetRequest(flag[e])
      BY <3>1 DEF SetRequests
    <3>8. Api!Begin(e, r)
      BY <3>1, <3>4, <3>5, <3>6, <3>7 DEF Api!Begin
    <3> QED
      BY <3>8 DEF Api!Next
  <2> QED
    BY <1>1, <2>1, <2>2 DEF UpdateDecryptToHost
<1>2. ASSUME NEW e \in Elements, StoreAnswers(e)
      PROVE  [Api!Next]_(Api!apiVars)
  <2>1. asked[e] \in BOOLEAN /\ asked' = asked /\ pc[e] = "asking"
    BY <1>2, <1>a DEF StoreAnswers, TypeOK, StoreInv, AskedBy
  <2>2. SetRequest(asked[e]) \in SetRequests
    BY <2>1 DEF SetRequests
  <2>3. req(asked)[e] = SetRequest(asked[e]) /\ ans(pc, asked)[e] = NULL
    BY <2>1
  <2>4. CASE store' = asked[e] /\ pc' = [pc EXCEPT ![e] = "told"]
    <3>1. ans(pc', asked') = [ans(pc, asked) EXCEPT ![e] = asked[e]]
      BY <1>a, <2>1, <2>4 DEF TypeOK
    <3>2. SetRequest(asked[e]).op = "set" /\ SetRequest(asked[e]).name = "decryptToHost"
          /\ SetRequest(asked[e]).value = asked[e]
      BY DEF SetRequest
    <3>3. stored(store') = [stored(store) EXCEPT ![SetRequest(asked[e]).name] = asked[e]]
      BY <2>4, <3>2
    <3>4. Api!Set(e)
      BY <2>1, <2>2, <2>3, <3>1, <3>2, <3>3 DEF Api!Set
    <3> QED
      BY <3>4 DEF Api!Next
  <2>5. CASE store' = store /\ pc' = [pc EXCEPT ![e] = "denied"]
    <3>1. ans(pc', asked') = [ans(pc, asked) EXCEPT ![e] = Failed]
      BY <1>a, <2>1, <2>5 DEF TypeOK
    <3>2. req(asked)[e] # NULL
      BY <2>2, <2>3
    <3>3. Api!Fail(e)
      BY <2>1, <2>3, <2>5, <3>1, <3>2 DEF Api!Fail
    <3> QED
      BY <3>3 DEF Api!Next
  <2> QED
    BY <1>2, <2>4, <2>5 DEF StoreAnswers
<1>3. ASSUME NEW e \in Elements, UpdateReturns(e)
      PROVE  [Api!Next]_(Api!apiVars)
  <2>1. /\ asked[e] \in BOOLEAN /\ pc[e] \in {"told", "denied"}
        /\ asked' = [asked EXCEPT ![e] = NULL] /\ pc' = [pc EXCEPT ![e] = "decide"]
        /\ store' = store
    BY <1>3, <1>a DEF UpdateReturns, TypeOK, StoreInv, AskedBy
  <2>2. ans(pc, asked)[e] # NULL
    BY <2>1
  <2>3. req(asked') = [req(asked) EXCEPT ![e] = NULL]
    BY <1>a, <2>1 DEF TypeOK
  <2>4. ans(pc', asked') = [ans(pc, asked) EXCEPT ![e] = NULL]
    BY <1>a, <2>1 DEF TypeOK
  <2>5. Api!End(e)
    BY <2>1, <2>2, <2>3, <2>4 DEF Api!End
  <2> QED
    BY <2>5 DEF Api!Next
<1>4. ASSUME NEW e \in Elements,
             \/ NullToReady(e) \/ ReadyToPaused(e) \/ PausedToReady(e)
             \/ ReadyToNull(e) \/ FreeContext(e) \/ ClearContext(e)
             \/ \E d \in BOOLEAN : TransformCaps(e, d)
      PROVE  UNCHANGED Api!apiVars
  <2>1. UNCHANGED <<mode, pc, asked>>
    BY <1>4 DEF NullToReady, ReadyToPaused, PausedToReady, ReadyToNull, FreeContext,
                ClearContext, TransformCaps
  <2> QED
    BY <1>s, <2>1 DEF mode
<1>5. ASSUME NEW e \in Elements,
             PrepareOutputBuffer(e) \/ Decide(e) \/ TransformFromClear(e) \/ NextBuffer(e)
      PROVE  UNCHANGED Api!apiVars
  <2>1. UNCHANGED <<mode, asked>>
    BY <1>5 DEF PrepareOutputBuffer, Decide, TransformFromClear, NextBuffer
  <2>2. /\ pc[e] \notin {"told", "denied"} /\ pc'[e] \notin {"told", "denied"}
        /\ \A f \in Elements \ {e} : pc'[f] = pc[f]
    BY <1>5, <1>a DEF PrepareOutputBuffer, Decide, TransformFromClear, NextBuffer, TypeOK, Ended
  <2>3. \A f \in Elements : \A p \in {"told", "denied"} : pc'[f] = p <=> pc[f] = p
    BY <2>2
  <2> QED
    BY <1>s, <2>1, <2>3 DEF mode
<1>6. CASE UNCHANGED vars
  BY <1>6, <1>s DEF vars, mode
<1> QED
  BY <1>1, <1>2, <1>3, <1>4, <1>5, <1>6 DEF Next

(* svpPayloadUpdateDecryptToHost uses the process store as the header      *)
(* says that it may be used.                                               *)
THEOREM Refinement == Spec => CallsStore
<1>1. Init => Api!Init
  BY DEF Init, Api!Init
<1> QED
  BY <1>1, StepsAsApi, Invariant, PTL DEF Spec, CallsStore, Api!Spec

-----------------------------------------------------------------------------
(* svpPayloadUpdateDecryptToHost returns early if the mode is the cached   *)
(* one.  While there is one element, the store then holds this very mode:  *)
(* whatever sets failed before, the one that is skipped would change       *)
(* nothing.                                                                *)
SkippedSetIsIdle ==
  \A e \in Elements : pc[e] = "prepared" /\ cached[e] = flag[e] => store = flag[e]

THEOREM OneElementSkipsRight ==
  ASSUME \A e, f \in Elements : e = f
  PROVE  Spec => []SkippedSetIsIdle
<1>1. IInv => SkippedSetIsIdle
  <2> SUFFICES ASSUME IInv, NEW e \in Elements, pc[e] = "prepared", cached[e] = flag[e]
               PROVE  store = flag[e]
    BY DEF SkippedSetIsIdle
  <2>1. cached[e] # NULL
    BY PayloadAssumption DEF IInv, TypeOK
  <2>2. writer \in Elements
    BY <2>1 DEF IInv, TypeOK, StoreInv, AskedBy
  <2>3. writer = e
    BY <2>2
  <2> QED
    BY <2>3 DEF IInv, StoreInv, AskedBy
<1> QED
  BY <1>1, Invariant, PTL

(* The check of svpPayloadTransform fails for no other reason than caps    *)
(* queries: it holds in a run in which they change no mode while the       *)
(* element handles a buffer.                                               *)
ModeSteady == \A e \in Elements : Handling(e) => flag'[e] = flag[e]

PreparedAsDecided ==
  \A e \in Elements :
    Handling(e) => out[e] = IF secure[e] \/ flag[e] THEN "same" ELSE "copy"

LEMMA SteadyStep ==
  IInv /\ PreparedAsDecided /\ [Next]_vars /\ [ModeSteady]_vars => PreparedAsDecided'
<1> SUFFICES ASSUME IInv, PreparedAsDecided, [Next]_vars, [ModeSteady]_vars,
                    NEW f \in Elements, Handling(f)'
             PROVE  (out[f] = IF secure[f] \/ flag[f] THEN "same" ELSE "copy")'
  BY DEF PreparedAsDecided
<1>a. TypeOK
  BY DEF IInv
<1>1. CASE UNCHANGED vars
  BY <1>1 DEF PreparedAsDecided, vars, buffer, Handling
<1>2. CASE Next /\ ModeSteady
  <2>1. ASSUME NEW e \in Elements, PrepareOutputBuffer(e)
        PROVE  (out[f] = IF secure[f] \/ flag[f] THEN "same" ELSE "copy")'
    <3>1. PICK s \in BOOLEAN :
            /\ secure' = [secure EXCEPT ![e] = s]
            /\ out' = [out EXCEPT ![e] = IF s \/ flag[e] THEN "same" ELSE "copy"]
      BY <2>1 DEF PrepareOutputBuffer
    <3>2. flag' = flag /\ \A g \in Elements \ {e} : pc'[g] = pc[g]
      BY <2>1, <1>a DEF PrepareOutputBuffer, TypeOK
    <3>3. CASE f = e
      BY <3>1, <3>2, <3>3, <1>a DEF TypeOK
    <3>4. CASE f # e
      <4>1. secure'[f] = secure[f] /\ out'[f] = out[f] /\ pc'[f] = pc[f]
        BY <3>1, <3>2, <3>4, <1>a DEF TypeOK
      <4> QED
        BY <3>2, <4>1 DEF PreparedAsDecided, Handling
    <3> QED
      BY <3>3, <3>4
  <2>2. ASSUME UNCHANGED <<secure, out>>, Handling(f)
        PROVE  (out[f] = IF secure[f] \/ flag[f] THEN "same" ELSE "copy")'
    BY <1>2, <2>2 DEF ModeSteady, PreparedAsDecided
  <2>3. ASSUME NEW e \in Elements,
               \/ NullToReady(e) \/ ReadyToPaused(e) \/ PausedToReady(e)
               \/ ReadyToNull(e) \/ FreeContext(e) \/ ClearContext(e)
               \/ \E d \in BOOLEAN : TransformCaps(e, d)
        PROVE  UNCHANGED <<secure, out, pc>>
    BY <2>3 DEF NullToReady, ReadyToPaused, PausedToReady, ReadyToNull, FreeContext,
                ClearContext, TransformCaps, buffer
  <2>4. ASSUME NEW e \in Elements,
               UpdateDecryptToHost(e) \/ StoreAnswers(e) \/ UpdateReturns(e)
                 \/ Decide(e) \/ TransformFromClear(e)
        PROVE  UNCHANGED <<secure, out>> /\ Handling(f)
    BY <2>4, <1>a DEF UpdateDecryptToHost, StoreAnswers, UpdateReturns, Decide,
                      TransformFromClear, buffer, Handling, TypeOK, Ended
  <2>5. ASSUME NEW e \in Elements, NextBuffer(e)
        PROVE  (out[f] = IF secure[f] \/ flag[f] THEN "same" ELSE "copy")'
    <3>1. pc'[e] = "idle"
      BY <2>5, <1>a DEF NextBuffer, TypeOK
    <3>2. f # e
      BY <3>1 DEF Handling
    <3>3. pc'[f] = pc[f] /\ secure'[f] = secure[f] /\ out'[f] = out[f] /\ flag' = flag
      BY <2>5, <3>2, <1>a DEF NextBuffer, TypeOK
    <3> QED
      BY <3>3 DEF PreparedAsDecided, Handling
  <2>6. ASSUME UNCHANGED <<secure, out, pc>>
        PROVE  (out[f] = IF secure[f] \/ flag[f] THEN "same" ELSE "copy")'
    BY <2>2, <2>6 DEF Handling
  <2> QED
    BY <1>2, <2>1, <2>2, <2>3, <2>4, <2>5, <2>6 DEF Next
<1> QED
  BY <1>1, <1>2

(* The g_return_val_if_fail of svpPayloadTransform never fails if no caps  *)
(* query changes the mode of an element in the middle of a buffer.         *)
THEOREM SteadyModeKeepsCheck ==
  Spec /\ [][ModeSteady]_vars => []PassthroughKeepsBuffer
<1>1. Init => PreparedAsDecided
  BY DEF Init, PreparedAsDecided, Handling
<1>2. PreparedAsDecided => PassthroughKeepsBuffer
  BY DEF PreparedAsDecided, PassthroughKeepsBuffer, Handling, Ended
<1> QED
  BY <1>1, <1>2, SteadyStep, Invariant, PTL DEF Spec
=============================================================================
