--------------------------- MODULE SecureBufferApi ---------------------------
(***************************************************************************)
(* What svp_allocate_secure_buffers / svp_release_secure_buffers promise,  *)
(* whichever implementation is registered behind them.                     *)
(*                                                                         *)
(* An allocation is a transaction: a session goes from no buffer to all    *)
(* the buffers it asked for in one step.  A buffer leaves its session by   *)
(* being handed downstream inside a token, or by being given back.  What   *)
(* an allocation holds while it runs, or gives back when it fails, is not  *)
(* visible here.                                                           *)
(***************************************************************************)
CONSTANTS Sessions,   \* threads that allocate and release secure buffers
          Regions     \* secure memory regions

VARIABLES held,       \* session -> the buffers it may use
          downstream  \* buffers whose token was delivered and not yet redeemed

vars == <<held, downstream>>

InUse == downstream \cup UNION {held[s] : s \in Sessions}

TypeOK ==
  /\ held \in [Sessions -> SUBSET Regions]
  /\ downstream \subseteq Regions

Init ==
  /\ held = [s \in Sessions |-> {}]
  /\ downstream = {}

(* One or two buffers that nobody can use become the session's. *)
Allocate(s) ==
  /\ held[s] = {}
  /\ \E a, b \in Regions \ InUse : held' = [held EXCEPT ![s] = {a, b}]
  /\ UNCHANGED downstream

HandOver(s, r) ==
  /\ r \in held[s]
  /\ held' = [held EXCEPT ![s] = @ \ {r}]
  /\ downstream' = downstream \cup {r}

GiveBack(s, r) ==
  /\ r \in held[s]
  /\ held' = [held EXCEPT ![s] = @ \ {r}]
  /\ UNCHANGED downstream

Redeem(r) ==
  /\ r \in downstream
  /\ downstream' = downstream \ {r}
  /\ UNCHANGED held

Next ==
  \/ \E s \in Sessions :
       \/ Allocate(s)
       \/ \E r \in Regions : HandOver(s, r) \/ GiveBack(s, r)
  \/ \E r \in Regions : Redeem(r)

Spec == Init /\ [][Next]_vars

(* No region is usable by two sessions, or by a session and downstream. *)
Disjoint ==
  /\ \A s \in Sessions : held[s] \cap downstream = {}
  /\ \A s, t \in Sessions : s # t => held[s] \cap held[t] = {}
=============================================================================
