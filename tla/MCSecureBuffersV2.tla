-------------------------- MODULE MCSecureBuffersV2 --------------------------
(* Two threads; four regions keep a thread that waits for IN memory from   *)
(* waiting for ever when one region was lost.                              *)
EXTENDS SecureBuffersV2, TLC

AllFaults == {"free", "to_token"}

Symmetric == Permutations(Sessions) \cup Permutations(Regions)
=============================================================================
