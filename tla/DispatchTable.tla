----------------------------- MODULE DispatchTable -----------------------------
(***************************************************************************)
(* s_gst_svp_context of gst_svp_meta.cpp: the functions of a platform.     *)
(* The library's constructor gst_svp_init calls the setter of every slot   *)
(* with a default and then gst_svp_init_device_context, in which a device  *)
(* calls the setters it likes.  Nothing else runs before the constructor   *)
(* has returned, and the table is only read from then on.                  *)
(***************************************************************************)
EXTENDS Naturals, Sequences

CONSTANTS NULL,   \* a null function pointer
          Devices \* the devices: the setters each calls, in order, and
                  \* whether its token is longer than a 32-bit word

(* The setters, each with the slot it writes.                              *)
SlotOf ==
  [svp_allocate_secure_buffers_set           |-> "svp_allocate_secure_buffers",
   svp_release_secure_buffers_set            |-> "svp_release_secure_buffers",
   svp_allocate_secure_buffer_set            |-> "svp_allocate_secure_buffer",
   svp_free_secure_buffer_set                |-> "svp_free_secure_buffer",
   svp_release_secure_buffer_set             |-> "svp_release_secure_buffer",
   svp_set_context_v3_set                    |-> "svp_context_set_v3",
   svp_get_context_v3_set                    |-> "svp_context_get_v3",
   svp_allocate_secure_memory_set            |-> "svp_alloc_sec_mem",
   svp_release_secure_memory_set             |-> "svp_release_sec_mem",
   svp_support_mem_prealloc_set              |-> "svp_support_sec_mem_prealloc",
   svp_create_platform_allocator_set         |-> "svp_create_platform_allocator",
   gst_svp_is_buffer_using_secure_memory_set |-> "svp_is_buffer_using_secure_memory",
   gst_svp_ext_transform_caps_clear_set      |-> "svp_ext_transform_caps_clear",
   svp_header_extract_output_buffer_set      |-> "svp_header_extract_output_buffer",
   gst_buffer_array_append_svp_transform_set |-> "gst_buffer_array_append_svp_transform",
   svp_buffer_destroy_token_set              |-> "svp_buffer_destroy_token"]

Setter == DOMAIN SlotOf
Slots == {SlotOf[setter] : setter \in Setter}

(* The calls that gst_svp_init makes.                                      *)
SecureBufferSetters ==
  <<"svp_allocate_secure_buffers_set", "svp_release_secure_buffers_set",
    "svp_allocate_secure_buffer_set", "svp_free_secure_buffer_set",
    "svp_release_secure_buffer_set", "svp_set_context_v3_set", "svp_get_context_v3_set">>

MemorySetters ==
  <<"svp_allocate_secure_memory_set", "svp_release_secure_memory_set",
    "svp_support_mem_prealloc_set", "svp_create_platform_allocator_set">>

BufferSetters ==
  <<"gst_svp_is_buffer_using_secure_memory_set", "gst_svp_ext_transform_caps_clear_set",
    "svp_header_extract_output_buffer_set", "gst_buffer_array_append_svp_transform_set",
    "svp_buffer_destroy_token_set">>

InitDevice == "gst_svp_init_device_context"

DeviceFirst == \* mutant: defaults that are set after the device's functions
  SecureBufferSetters \o MemorySetters \o <<InitDevice>> \o BufferSetters

gst_svp_init == SecureBufferSetters \o MemorySetters \o BufferSetters \o <<InitDevice>>

(* A setter stores what it is given, a null pointer included.              *)
Registration == [setter : Setter, function : {"platform", NULL}]

ASSUME DeviceAssumption ==
  /\ NULL \notin {"default", "platform"}
  /\ Devices \subseteq [calls : Seq(Registration), longToken : BOOLEAN]

VARIABLES device, \* the device the library is loaded on
          impl,   \* slot -> NULL, its default or the platform's function
          done,   \* how many of its calls gst_svp_init has made
          made    \* how many of its calls the device has made

tableVars == <<device, impl, done, made>>

TableTypeOK ==
  /\ device \in Devices
  /\ impl \in [Slots -> {NULL, "default", "platform"}]
  /\ done \in 0 .. Len(gst_svp_init)
  /\ made \in 0 .. Len(device.calls)

TableInit ==
  /\ device \in Devices
  /\ impl = [s \in Slots |-> NULL]
  /\ done = 0 /\ made = 0

Loaded == done = Len(gst_svp_init)

SetDefault ==
  /\ ~Loaded /\ gst_svp_init[done + 1] # InitDevice
  /\ impl' = [impl EXCEPT ![SlotOf[gst_svp_init[done + 1]]] = "default"]
  /\ done' = done + 1
  /\ UNCHANGED <<device, made>>

(* One of the setters, called by the device.                               *)
RegisterFunction ==
  /\ ~Loaded /\ gst_svp_init[done + 1] = InitDevice
  /\ made < Len(device.calls)
  /\ LET call == device.calls[made + 1]
     IN  impl' = [impl EXCEPT ![SlotOf[call.setter]] = call.function]
  /\ made' = made + 1
  /\ UNCHANGED <<device, done>>

(* gst_svp_init_device_context returns; without the device's own it is the *)
(* weak one, which calls no setter.                                        *)
EndInitDevice ==
  /\ ~Loaded /\ gst_svp_init[done + 1] = InitDevice
  /\ made = Len(device.calls)
  /\ done' = done + 1
  /\ UNCHANGED <<device, impl, made>>

Load == SetDefault \/ RegisterFunction \/ EndInitDevice

-----------------------------------------------------------------------------
(* The functions without a result.  Of the others FALSE, 0 and a null      *)
(* pointer are the "failure".                                              *)
Void == {"svp_context_set_v3", "svp_ext_transform_caps_clear"}

Results(s) == IF s \in Void THEN {"returns"} ELSE {"success", "failure"}

(* The defaults log, and return FALSE, 0 or nullptr.                       *)
DefaultResult(s) == IF s \in Void THEN "returns" ELSE "failure"

(* What a call through a slot may return: of a null pointer, nothing.      *)
CallResults(s) ==
  CASE impl[s] = NULL -> {}
    [] impl[s] = "default" -> {DefaultResult(s)}
    [] impl[s] = "platform" -> Results(s)

gst_svp_is_multiple_decrypt_supported ==
  impl["gst_buffer_array_append_svp_transform"] \notin {NULL, "default"}

(* The calls of the device that write a slot.                              *)
Registered(s) == {k \in 1 .. Len(device.calls) : SlotOf[device.calls[k].setter] = s}

(* Once the library is loaded, a call through a slot that the device left  *)
(* alone returns, as a failure, and one through any other slot reaches     *)
(* what the device registered for it last: no default has come after it.   *)
(* Only a null pointer that a device registered itself is called.  And     *)
(* the answer to "is multiple decryption supported" is yes if and only if  *)
(* a multiple decryption may succeed.                                      *)
DispatchReady ==
  Loaded =>
    /\ \A s \in Slots :
         /\ Registered(s) = {} => CallResults(s) = {DefaultResult(s)}
         /\ \A k \in Registered(s) : (\A j \in Registered(s) : j <= k) =>
              CallResults(s) = IF device.calls[k].function = NULL THEN {} ELSE Results(s)
    /\ gst_svp_is_multiple_decrypt_supported
         <=> "success" \in CallResults("gst_buffer_array_append_svp_transform")
=============================================================================
