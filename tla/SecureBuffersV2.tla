--------------------------- MODULE SecureBuffersV2 ---------------------------
(***************************************************************************)
(* svp_allocate_secure_buffers_v2_secapi_impl,                             *)
(* svp_release_secure_buffers_v2_secapi_impl and                           *)
(* svp_free_secure_buffer_v2_secapi_impl.                                  *)
(*                                                                         *)
(* Allocation always returns 1: a caller learns of a failure from the      *)
(* pointers.  The path "IN cannot be allocated after OUT was" frees OUT    *)
(* twice (63 and 105); InMallocMayFail says whether the heap can run out   *)
(* there, so that everything else can be checked without it.               *)
(***************************************************************************)
EXTENDS SecureHeap

CONSTANT InMallocMayFail  \* may the heap run out between OUT and IN?

ASSUME V2Assumption == InMallocMayFail \in BOOLEAN

Calls == {"idle", "alloc_out", "alloc_in", "free_out", "write", "discard_in",
          "discard_out", "returned", "to_token", "hand_off", "free_in"}

TypeOK == HeapTypeOK /\ pc \in [Sessions -> Calls]

(* if (p) SecOpaqueBuffer_Free(p), result ignored.                         *)
FreeNothing(p) == UNCHANGED heap  \* mutant: the buffer is not given back

FreeIfSet(p) == IF p = NULL THEN UNCHANGED heap ELSE Free(p)

-----------------------------------------------------------------------------
(* pInData is handed to SecOpaqueBuffer_Write without a look at it.        *)
Allocate(s) ==
  /\ pc[s] = "idle" /\ Goto(s, "alloc_out")
  /\ \E a \in Args : a.pInData /\ arg' = [arg EXCEPT ![s] = a]
  /\ UNCHANGED <<inBuf, outBuf, token, heap>>

MallocOut(s) ==
  \/ ~arg[s].ppOutBuf /\ Continue(s, "alloc_out", "alloc_in")
  \/ /\ arg[s].ppOutBuf
     /\ pc[s] = "alloc_out" /\ Goto(s, "alloc_in")
     /\ \E r \in Regions : Alloc(r) /\ outBuf' = [outBuf EXCEPT ![s] = r]
     /\ UNCHANGED <<arg, inBuf, token>>
  \/ arg[s].ppOutBuf /\ Continue(s, "alloc_out", "discard_in")

MallocInGrant(s) ==
  /\ arg[s].ppInBuf
  /\ pc[s] = "alloc_in" /\ Goto(s, "write")
  /\ \E r \in Regions : Alloc(r) /\ inBuf' = [inBuf EXCEPT ![s] = r]
  /\ UNCHANGED <<arg, outBuf, token>>

MallocInAlwaysWrites(s) == \* mutant: no if (pDataIn) around the write
  \/ ~arg[s].ppInBuf /\ Continue(s, "alloc_in", "write")
  \/ MallocInGrant(s)

MallocIn(s) ==
  \/ ~arg[s].ppInBuf /\ Continue(s, "alloc_in", "returned")
  \/ MallocInGrant(s)
  \/ /\ arg[s].ppInBuf /\ (InMallocMayFail \/ outBuf[s] = NULL)
     /\ Continue(s, "alloc_in", "free_out")

(* Line 63: OUT is freed where IN failed, and pDataOut keeps its value.    *)
FreeOut(s) ==
  /\ pc[s] = "free_out" /\ Goto(s, "discard_in")
  /\ FreeIfSet(outBuf[s])
  /\ UNCHANGED <<arg, inBuf, outBuf, token>>

WriteFailureKept(s) == \* mutant: a failed write is only logged
  \/ /\ pc[s] = "write" /\ Goto(s, "returned")
     /\ written' = written \cup {inBuf[s]}
     /\ UNCHANGED <<arg, inBuf, outBuf, token, live, handed, lost>>
  \/ Continue(s, "write", "returned")

Write(s) ==
  \/ /\ pc[s] = "write" /\ Goto(s, "returned")
     /\ written' = written \cup {inBuf[s]}
     /\ UNCHANGED <<arg, inBuf, outBuf, token, live, handed, lost>>
  \/ Continue(s, "write", "discard_in")

(* Lines 79-86 and 101-108: IN, then OUT.  A pointer is reset together     *)
(* with its free; nothing reads it between the two.                        *)
DiscardIn(s) ==
  /\ pc[s] = "discard_in" /\ Goto(s, "discard_out")
  /\ FreeIfSet(inBuf[s]) /\ inBuf' = [inBuf EXCEPT ![s] = NULL]
  /\ UNCHANGED <<arg, outBuf, token>>

DiscardOutNoReset(s) == \* mutant: the freed pointer reaches the caller
  /\ pc[s] = "discard_out" /\ Goto(s, "returned")
  /\ FreeIfSet(outBuf[s])
  /\ UNCHANGED <<arg, inBuf, outBuf, token>>

DiscardOut(s) ==
  /\ pc[s] = "discard_out" /\ Goto(s, "returned")
  /\ FreeIfSet(outBuf[s]) /\ outBuf' = [outBuf EXCEPT ![s] = NULL]
  /\ UNCHANGED <<arg, inBuf, token>>

-----------------------------------------------------------------------------
(* The caller looks at the pointers: it frees its buffers one by one       *)
(* (svp_free_secure_buffer_v2_secapi_impl), releases the pair, or has none.*)
FreeSecureBuffer(s) ==
  /\ pc[s] = "returned" /\ UNCHANGED <<pc, arg, token>>
  /\ \/ /\ inBuf[s] # NULL /\ Free(inBuf[s])
        /\ inBuf' = [inBuf EXCEPT ![s] = NULL] /\ UNCHANGED outBuf
     \/ /\ outBuf[s] # NULL /\ Free(outBuf[s])
        /\ outBuf' = [outBuf EXCEPT ![s] = NULL] /\ UNCHANGED inBuf

Finish(s) == Held(s) = {} /\ Continue(s, "returned", "idle")

Release(s) == Held(s) # {} /\ Continue(s, "returned", "to_token")

ToToken(s) ==
  /\ pc[s] = "to_token" /\ Goto(s, "hand_off")
  /\ \/ token' = [token EXCEPT ![s] = outBuf[s]] /\ UNCHANGED lost
     \/ /\ outBuf[s] # NULL /\ MayFail("to_token")
        /\ lost' = lost \cup {outBuf[s]} /\ UNCHANGED token
  /\ UNCHANGED <<arg, inBuf, outBuf, live, written, handed>>

HandOffInput(s) == \* mutant: pInBuf where pOutBuf is meant
  /\ pc[s] = "hand_off" /\ Goto(s, "free_in")
  /\ handed' = handed \cup ({inBuf[s]} \ {NULL})
  /\ outBuf' = [outBuf EXCEPT ![s] = NULL]
  /\ token' = [token EXCEPT ![s] = NULL]
  /\ UNCHANGED <<arg, inBuf, live, written, lost>>

HandOffThenRelease(s) == \* mutant: the SecOpaqueBuffer_Release of line 131
  /\ pc[s] = "hand_off" /\ Goto(s, "free_in")
  /\ handed' = handed \cup ({token[s]} \ {NULL})
  /\ live' = live \ {outBuf[s]}
  /\ outBuf' = [outBuf EXCEPT ![s] = NULL]
  /\ token' = [token EXCEPT ![s] = NULL]
  /\ UNCHANGED <<arg, inBuf, written, lost>>

(* The token is copied to pDataOut and freed; OUT itself is not (129-131). *)
HandOff(s) ==
  /\ pc[s] = "hand_off" /\ Goto(s, "free_in")
  /\ handed' = handed \cup ({token[s]} \ {NULL})
  /\ outBuf' = [outBuf EXCEPT ![s] = NULL]
  /\ token' = [token EXCEPT ![s] = NULL]
  /\ UNCHANGED <<arg, inBuf, live, written, lost>>

FreeIn(s) ==
  /\ pc[s] = "free_in" /\ Goto(s, "idle")
  /\ FreeIfSet(inBuf[s]) /\ inBuf' = [inBuf EXCEPT ![s] = NULL]
  /\ UNCHANGED <<arg, outBuf, token>>

Step(s) ==
  \/ Allocate(s) \/ MallocOut(s) \/ MallocIn(s) \/ FreeOut(s) \/ Write(s)
  \/ DiscardIn(s) \/ DiscardOut(s) \/ FreeSecureBuffer(s) \/ Finish(s)
  \/ Release(s) \/ ToToken(s) \/ HandOff(s) \/ FreeIn(s)

Next == (\E s \in Sessions : Step(s)) \/ (\E r \in Regions : Redeem(r))

Spec == Init /\ [][Next]_vars

-----------------------------------------------------------------------------
(* The result code says nothing, so the pointers must: a caller that got   *)
(* an input buffer finds the input in it.                                  *)
InputCopied ==
  \A s \in Sessions : pc[s] = "returned" /\ inBuf[s] # NULL => inBuf[s] \in written

(* SecOpaqueBuffer_Free on an error path is for a buffer that is allocated *)
(* and belongs to the thread: never twice, and never after the region went *)
(* to another thread.  "If we free the pOutBuf here will will crash due to *)
(* double free" says the comment at line 129 of what happens otherwise.    *)
FreesOwnLiveBuffer ==
  \A s \in Sessions : pc[s] = "discard_out" /\ outBuf[s] # NULL =>
    /\ outBuf[s] \in live
    /\ \A t \in Sessions \ {s} : outBuf[s] \notin Held(t)
=============================================================================
