--------------------------- MODULE SecureHeap_proofs ---------------------------
(***************************************************************************)
(* What the proofs about SecAPI 2 and SecAPI 3 have in common: the parts   *)
(* of their inductive invariants that are about the heap and the tokens,   *)
(* and how a step looks to a caller.                                       *)
(***************************************************************************)
EXTENDS SecureHeap, TLAPS

(* A token stands for the OUT buffer, and exists from to_token to the copy.*)
TokenOfOut ==
  \A s \in Sessions :
    /\ token[s] # NULL => pc[s] = "hand_off" /\ token[s] = outBuf[s]
    /\ pc[s] = "hand_off" /\ token[s] = NULL => outBuf[s] \in lost \cup {NULL}

(* Pointers and delivered tokens name allocated regions.                   *)
Allocated ==
  /\ handed \subseteq live
  /\ \A s \in Sessions : {inBuf[s], outBuf[s]} \subseteq live \cup {NULL}

(* A region is named once.                                                 *)
NamedOnce ==
  /\ \A s \in Sessions :
       /\ inBuf[s] \notin handed /\ outBuf[s] \notin handed
       /\ inBuf[s] = outBuf[s] => inBuf[s] = NULL
  /\ \A s, t \in Sessions : s # t =>
       /\ inBuf[s] = inBuf[t] => inBuf[s] = NULL
       /\ outBuf[s] = outBuf[t] => outBuf[s] = NULL
       /\ inBuf[s] = outBuf[t] => inBuf[s] = NULL

-----------------------------------------------------------------------------
(* What the abstract interface shows of each session.                      *)
held == [s \in Sessions |-> Usable(s)]

(* A step that leaves the place and the pointers of other threads alone.   *)
LEMMA Others ==
  ASSUME NEW s \in Sessions,
         \A t \in Sessions \ {s} :
           pc'[t] = pc[t] /\ inBuf'[t] = inBuf[t] /\ outBuf'[t] = outBuf[t]
  PROVE  \A t \in Sessions \ {s} : Usable(t)' = Usable(t)
  BY DEF Usable, Held

(* A step of s that no caller sees.                                        *)
LEMMA Invisible ==
  ASSUME NEW s \in Sessions, handed' = handed, Usable(s)' = Usable(s),
         \A t \in Sessions \ {s} : Usable(t)' = Usable(t)
  PROVE  UNCHANGED Api!vars
  BY DEF Api!vars

(* A step of s after which its caller no longer has the region r.          *)
LEMMA Leaves ==
  ASSUME NEW s \in Sessions, NEW r \in Usable(s), Usable(s)' = Usable(s) \ {r},
         \A t \in Sessions \ {s} : Usable(t)' = Usable(t),
         handed' \in {handed, handed \cup {r}}, r \in Regions
  PROVE  Api!Next
<1>1. held[s] = Usable(s) /\ held' = [held EXCEPT ![s] = @ \ {r}]
  BY DEF held
<1>2. Api!HandOver(s, r) \/ Api!GiveBack(s, r)
  BY <1>1 DEF Api!HandOver, Api!GiveBack, held
<1> QED
  BY <1>2 DEF Api!Next

(* The return of an allocation: the regions were not in use by a caller.   *)
LEMMA Returns ==
  ASSUME NEW s \in Sessions, HeapTypeOK', NamedOnce', handed' = handed,
         Usable(s) = {}, Usable(s)' = Held(s)',
         \A t \in Sessions \ {s} : Usable(t)' = Usable(t)
  PROVE  [Api!Next]_Api!vars
<1>1. CASE Held(s)' = {}
  BY <1>1, Invisible
<1>2. CASE Held(s)' # {}
  <2>1. PICK a, b \in Regions : Held(s)' = {a, b}
    BY <1>2 DEF HeapTypeOK, Pointers, Held
  <2>2. ASSUME NEW t \in Sessions PROVE {a, b} \cap Usable(t) = {}
    <3>1. CASE t = s
      BY <3>1
    <3>2. CASE t # s
      <4>1. Held(s)' \cap Held(t)' = {}
        BY <3>2 DEF NamedOnce, Held
      <4>2. Usable(t)' \subseteq Held(t)'
        BY DEF Usable
      <4> QED
        BY <2>1, <3>2, <4>1, <4>2
    <3> QED
      BY <3>1, <3>2
  <2>3. {a, b} \cap handed = {}
    BY <2>1 DEF NamedOnce, Held
  <2>4. {a, b} \cap Api!InUse = {}
    BY <2>2, <2>3 DEF Api!InUse
  <2>5. held[s] = {} /\ held' = [held EXCEPT ![s] = {a, b}]
    BY <2>1 DEF held
  <2>6. Api!Allocate(s)
    BY <2>4, <2>5 DEF Api!Allocate, held
  <2> QED
    BY <2>6 DEF Api!Next
<1> QED
  BY <1>1, <1>2
=============================================================================
