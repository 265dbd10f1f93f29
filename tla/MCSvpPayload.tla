----------------------------- MODULE MCSvpPayload -----------------------------
(* Two elements that share the process store.                              *)
EXTENDS SvpPayload, TLC

Symmetric == Permutations(Elements) \cup Permutations(Contexts)
=============================================================================
