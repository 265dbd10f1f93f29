--------------------------- MODULE SecureBuffersV3 ---------------------------
(***************************************************************************)
(* svp_allocate_secure_buffers_v3_impl_default and                         *)
(* svp_release_secure_buffers_v3_impl_default.  The Sec_OpaqueBufferHandle *)
(* the code keeps on the host is identified with the region it describes.  *)
(***************************************************************************)
EXTENDS SecureHeap

CONSTANT DataOut  \* values of pDataOut # NULL the callers of release use

ASSUME V3Assumption == DataOut \subseteq BOOLEAN

Calls == {"idle", "alloc_out", "alloc_in", "copy_in", "undo_alloc", "undo_out",
          "undo_in", "returned", "failed", "to_token", "hand_off", "free_in"}

TypeOK == HeapTypeOK /\ pc \in [Sessions -> Calls]

(* free_v3_memory(&p) on the heap; the action that calls it resets p.      *)
FreeHostStructOnly(p) == UNCHANGED heap  \* mutant: sa_svp_memory_free forgotten

FreeV3Memory(p) == IF p = NULL THEN UNCHANGED heap ELSE Free(p)

-----------------------------------------------------------------------------
Allocate(s) ==
  /\ pc[s] = "idle" /\ Goto(s, "alloc_out")
  /\ \E a \in Args : arg' = [arg EXCEPT ![s] = a]
  /\ UNCHANGED <<inBuf, outBuf, token, heap>>

(* A failure returns 0 before anything was assigned.                       *)
AllocateOut(s) ==
  \/ ~arg[s].ppOutBuf /\ Continue(s, "alloc_out", "alloc_in")
  \/ /\ arg[s].ppOutBuf
     /\ pc[s] = "alloc_out" /\ Goto(s, "alloc_in")
     /\ \E r \in Regions : Alloc(r) /\ outBuf' = [outBuf EXCEPT ![s] = r]
     /\ UNCHANGED <<arg, inBuf, token>>
  \/ arg[s].ppOutBuf /\ Continue(s, "alloc_out", "failed")

CopyNext(s) == IF arg[s].pInData THEN "copy_in" ELSE "returned"

AllocateInGrant(s) ==
  /\ arg[s].ppInBuf
  /\ pc[s] = "alloc_in" /\ Goto(s, CopyNext(s))
  /\ \E r \in Regions : Alloc(r) /\ inBuf' = [inBuf EXCEPT ![s] = r]
  /\ UNCHANGED <<arg, outBuf, token>>

AllocateInCopiesAlways(s) == \* mutant: the copy is outside if (ppInBuf)
  \/ ~arg[s].ppInBuf /\ Continue(s, "alloc_in", CopyNext(s))
  \/ AllocateInGrant(s)
  \/ arg[s].ppInBuf /\ Continue(s, "alloc_in", "undo_alloc")

AllocateInNoUndo(s) == \* mutant: a failed IN allocation leaves OUT behind
  \/ ~arg[s].ppInBuf /\ Continue(s, "alloc_in", "returned")
  \/ AllocateInGrant(s)
  \/ arg[s].ppInBuf /\ Continue(s, "alloc_in", "failed")

AllocateIn(s) ==
  \/ ~arg[s].ppInBuf /\ Continue(s, "alloc_in", "returned")
  \/ AllocateInGrant(s)
  \/ arg[s].ppInBuf /\ Continue(s, "alloc_in", "undo_alloc")

(* sa_svp_buffer_create and sa_svp_buffer_write; either may fail.          *)
CopyInput(s) ==
  \/ /\ pc[s] = "copy_in" /\ Goto(s, "returned")
     /\ written' = written \cup {inBuf[s]}
     /\ UNCHANGED <<arg, inBuf, outBuf, token, live, handed, lost>>
  \/ Continue(s, "copy_in", "undo_out")

(* free_v3_memory(ppOutBuf), on either error path.                         *)
UndoOutKeepsPointer(s) == \* mutant: *ppOutBuf is not reset
  /\ pc[s] \in {"undo_alloc", "undo_out"}
  /\ Goto(s, IF pc[s] = "undo_alloc" THEN "failed" ELSE "undo_in")
  /\ FreeV3Memory(outBuf[s])
  /\ UNCHANGED <<arg, inBuf, outBuf, token>>

UndoOut(s) ==
  /\ pc[s] \in {"undo_alloc", "undo_out"}
  /\ Goto(s, IF pc[s] = "undo_alloc" THEN "failed" ELSE "undo_in")
  /\ FreeV3Memory(outBuf[s]) /\ outBuf' = [outBuf EXCEPT ![s] = NULL]
  /\ UNCHANGED <<arg, inBuf, token>>

UndoIn(s) ==
  /\ pc[s] = "undo_in" /\ Goto(s, "failed")
  /\ FreeV3Memory(inBuf[s]) /\ inBuf' = [inBuf EXCEPT ![s] = NULL]
  /\ UNCHANGED <<arg, outBuf, token>>

GiveUp(s) == Continue(s, "failed", "idle")

-----------------------------------------------------------------------------
Release(s) == Continue(s, "returned", "to_token")

(* svp_buffer_to_token; its result is ignored, and after a failure the     *)
(* token stands for nothing.                                               *)
ToTokenOfInput(s) == \* mutant: pInBuf where pOutBuf is meant
  /\ pc[s] = "to_token" /\ Goto(s, "hand_off")
  /\ token' = [token EXCEPT ![s] = inBuf[s]]
  /\ UNCHANGED <<arg, inBuf, outBuf, heap>>

ToToken(s) ==
  /\ pc[s] = "to_token" /\ Goto(s, "hand_off")
  /\ \/ token' = [token EXCEPT ![s] = outBuf[s]] /\ UNCHANGED lost
     \/ /\ outBuf[s] # NULL /\ MayFail("to_token")
        /\ lost' = lost \cup {outBuf[s]} /\ UNCHANGED token
  /\ UNCHANGED <<arg, inBuf, outBuf, live, written, handed>>

(* free(pOutBuf), the copy to pDataOut when there is one, and              *)
(* svp_buffer_free_token, which leaves the secure memory alone.            *)
HandOff(s) ==
  /\ pc[s] = "hand_off" /\ Goto(s, "free_in")
  /\ \E delivered \in DataOut :
       handed' = handed \cup (IF delivered THEN {token[s]} \ {NULL} ELSE {})
  /\ outBuf' = [outBuf EXCEPT ![s] = NULL]
  /\ token' = [token EXCEPT ![s] = NULL]
  /\ UNCHANGED <<arg, inBuf, live, written, lost>>

FreeIn(s) ==
  /\ pc[s] = "free_in" /\ Goto(s, "idle")
  /\ FreeV3Memory(inBuf[s]) /\ inBuf' = [inBuf EXCEPT ![s] = NULL]
  /\ UNCHANGED <<arg, outBuf, token>>

Step(s) ==
  \/ Allocate(s) \/ AllocateOut(s) \/ AllocateIn(s) \/ CopyInput(s)
  \/ UndoOut(s) \/ UndoIn(s) \/ GiveUp(s)
  \/ Release(s) \/ ToToken(s) \/ HandOff(s) \/ FreeIn(s)

Next == (\E s \in Sessions : Step(s)) \/ (\E r \in Regions : Redeem(r))

Spec == Init /\ [][Next]_vars

-----------------------------------------------------------------------------
(* Allocation is all or nothing: 1 means every buffer asked for is there,  *)
(* with the input copied in, and 0 means none is, wherever it failed.      *)
AllOrNothing ==
  \A s \in Sessions :
    /\ pc[s] = "returned" =>
         /\ inBuf[s] # NULL <=> arg[s].ppInBuf
         /\ outBuf[s] # NULL <=> arg[s].ppOutBuf
         /\ arg[s].ppInBuf /\ arg[s].pInData => inBuf[s] \in written
    /\ pc[s] = "failed" => Held(s) = {}
=============================================================================
