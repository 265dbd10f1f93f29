----------------------------- MODULE MCSvpHeader -----------------------------
(* Two blocks and three regions: one more than the blocks can refer to.    *)
(* Devices that register nothing; allocation alone, with release and with  *)
(* extraction as well; the same slot twice, and null pointers;             *)
(* tokens of one word and longer ones.                                     *)
EXTENDS SvpHeader, TLC

Sets(setter, function) == [setter |-> setter, function |-> function]

Alloc == Sets("svp_allocate_secure_memory_set", "platform")
Release == Sets("svp_release_secure_memory_set", "platform")
Extract == Sets("svp_header_extract_output_buffer_set", "platform")
AppendArray == Sets("gst_buffer_array_append_svp_transform_set", "platform")
NoAppendArray == Sets("gst_buffer_array_append_svp_transform_set", NULL)
NoRelease == Sets("svp_release_secure_memory_set", NULL)

SomeDevices ==
  [calls : {<<>>, <<Extract, Release, Alloc>>, <<Alloc>>, <<Alloc, Release>>,
            <<AppendArray, NoAppendArray>>, <<Alloc, Extract, NoRelease>>},
   longToken : BOOLEAN]

Symmetric == Permutations(Blocks) \cup Permutations(Regions)
=============================================================================
