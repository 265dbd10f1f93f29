-------------------------- MODULE MCSecureBuffersV3 --------------------------
(* Two threads against a heap too small for two full pairs of buffers.     *)
EXTENDS SecureBuffersV3, TLC

AllFaults == {"free", "to_token"}
Delivers == {TRUE}
MayDiscard == {TRUE, FALSE}

Symmetric == Permutations(Sessions) \cup Permutations(Regions)
=============================================================================
