------------------------------ MODULE SecureHeap ------------------------------
(***************************************************************************)
(* What the SecAPI 2 and SecAPI 3 implementations of                       *)
(* gst_svp_secure_buffers_secapi.cpp have in common: threads that allocate *)
(* an IN and an OUT buffer and release the pair, the platform's heap, and  *)
(* the tokens that carry an OUT buffer to the consumer of the payload.     *)
(*                                                                         *)
(* A buffer pointer is the secure region it stands for, or NULL.  A step   *)
(* is the code between two calls of the platform; pc names the call that   *)
(* comes next.                                                             *)
(***************************************************************************)
EXTENDS FiniteSets, Naturals

CONSTANTS Sessions,  \* threads that allocate, use and release buffers
          Regions,   \* secure memory regions the heap can grant
          NULL,
          Faults,    \* calls that may fail although the code expects success
          MaxLost    \* bound on the regions such failures cost

ASSUME HeapAssumption ==
  /\ NULL \notin Regions
  /\ Faults \subseteq {"free", "to_token"}
  /\ MaxLost \in Nat

VARIABLES pc,       \* session -> the call it is about to make
          arg,      \* session -> which arguments of allocate are not NULL
          inBuf,    \* session -> *ppInBuf, later pInBuf
          outBuf,   \* session -> *ppOutBuf, later pOutBuf
          token,    \* session -> the region secToken stands for
          live,     \* regions allocated and not yet freed
          written,  \* regions that hold the input data
          handed,   \* regions whose token was delivered, not yet redeemed
          lost      \* regions dropped because the platform failed

heap == <<live, written, handed, lost>>
vars == <<pc, arg, inBuf, outBuf, token, live, written, handed, lost>>

Args == [ppInBuf : BOOLEAN, ppOutBuf : BOOLEAN, pInData : BOOLEAN]
Pointers == Regions \cup {NULL}

HeapTypeOK ==
  /\ arg \in [Sessions -> Args]
  /\ inBuf \in [Sessions -> Pointers]
  /\ outBuf \in [Sessions -> Pointers]
  /\ token \in [Sessions -> Pointers]
  /\ live \subseteq Regions
  /\ written \subseteq Regions
  /\ handed \subseteq Regions
  /\ lost \subseteq Regions

Init ==
  /\ pc = [s \in Sessions |-> "idle"]
  /\ arg = [s \in Sessions |-> [ppInBuf |-> FALSE, ppOutBuf |-> FALSE, pInData |-> FALSE]]
  /\ inBuf = [s \in Sessions |-> NULL]
  /\ outBuf = [s \in Sessions |-> NULL]
  /\ token = [s \in Sessions |-> NULL]
  /\ live = {} /\ written = {} /\ handed = {} /\ lost = {}

Goto(s, call) == pc' = [pc EXCEPT ![s] = call]

Continue(s, from, to) ==
  /\ pc[s] = from /\ Goto(s, to)
  /\ UNCHANGED <<arg, inBuf, outBuf, token, heap>>

-----------------------------------------------------------------------------
(* The platform.  A granted region is one nobody has; its content is old.  *)
Alloc(r) ==
  /\ r \in Regions \ live
  /\ live' = live \cup {r}
  /\ written' = written \ {r}
  /\ UNCHANGED <<handed, lost>>

MayFail(call) == call \in Faults /\ Cardinality(lost) < MaxLost

Free(r) ==
  \/ live' = live \ {r} /\ UNCHANGED <<written, handed, lost>>
  \/ MayFail("free") /\ lost' = lost \cup {r} /\ UNCHANGED <<live, written, handed>>

(* The consumer of the payload turns the token into the region, frees it.  *)
Redeem(r) ==
  /\ r \in handed
  /\ handed' = handed \ {r}
  /\ live' = live \ {r}
  /\ UNCHANGED <<pc, arg, inBuf, outBuf, token, written, lost>>

-----------------------------------------------------------------------------
Held(s) == {inBuf[s], outBuf[s]} \ {NULL}
InUse == handed \cup UNION {Held(s) : s \in Sessions}

(* No error path, of any thread, leaves a buffer pointer or a delivered    *)
(* token that names memory already freed: nothing is freed twice or used   *)
(* after it was freed.                                                     *)
NoDangling == InUse \subseteq live

(* A region has one owner: one pointer of one thread, or one delivered     *)
(* token.  In particular the OUT buffer is not touched by its thread once  *)
(* its token is downstream, and the IN buffer never goes downstream.       *)
Exclusive ==
  \A s \in Sessions :
    /\ inBuf[s] = outBuf[s] => inBuf[s] = NULL
    /\ Held(s) \cap handed = {}
    /\ \A t \in Sessions \ {s} : Held(s) \cap Held(t) = {}

(* Secure memory is scarce: whatever is allocated is still reachable from  *)
(* a thread or a delivered token, or the platform failed to take it back   *)
(* or to make a token for it.                                              *)
NoLeak == live \subseteq InUse \cup lost

(* The buffers of a session as its caller sees them: from the return of    *)
(* the allocation to the end of the release.                               *)
Usable(s) ==
  IF pc[s] \in {"returned", "to_token", "hand_off", "free_in"} THEN Held(s) ELSE {}

Api == INSTANCE SecureBufferApi
         WITH held <- [s \in Sessions |-> Usable(s)], downstream <- handed

(* Every interleaving of the calls is an interleaving of transactions.     *)
ImplementsApi == Api!Spec
=============================================================================
