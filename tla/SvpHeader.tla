------------------------------- MODULE SvpHeader -------------------------------
(***************************************************************************)
(* Data blocks of gst_svp_header.cpp and the secure memory their headers   *)
(* refer to.  A block is g_malloc0'd with an SVP header in front; its Type *)
(* says what the OutputBuffer field is: nothing (InPlace), a token of a    *)
(* secure buffer made elsewhere (Handle), or secure memory allocated       *)
(* together with the block (PreAllocatedHandle, Fake on platforms that     *)
(* only pretend to).  Fields are set and read 32 bits wide or through a    *)
(* pointer (v2); only v2 covers an OutputBuffer longer than a word.        *)
(*                                                                         *)
(* gst_svp_write_header copies more than the default header holds, so that *)
(* OutputBuffer starts with whatever bytes follow it: Undefined.           *)
(***************************************************************************)
EXTENDS DispatchTable

CONSTANTS Blocks,       \* data blocks in flight
          Regions,      \* secure memory regions
          Undefined,    \* an OutputBuffer field that is no handle
          Dummy,        \* the handle of a Fake block
          WordLimit,    \* 2^32: a gsize may be larger, a uint32_t may not
          FreeWithToken \* do clients free a block that still holds a token?

InPlace == 0
Handle == 1
PreAllocatedHandle == 2
Fake == 3
TokenType == {InPlace, Handle, PreAllocatedHandle, Fake}

FieldName == {"Type", "Version", "DataSize", "OutputBuffer"}
Sizes == 0 .. WordLimit
Words == 0 .. WordLimit - 1
Handles == Regions \cup {NULL, Undefined, Dummy}

Header == {h \in [FieldName -> TokenType \cup Words \cup Handles] :
             /\ h["Type"] \in TokenType /\ h["OutputBuffer"] \in Handles
             /\ h["Version"] \in Words /\ h["DataSize"] \in Words}

ASSUME HeaderAssumption ==
  /\ NULL \notin Header
  /\ {NULL, Undefined, Dummy} \cap Regions = {}
  /\ NULL # Undefined /\ NULL # Dummy /\ Undefined # Dummy
  /\ WordLimit \in Nat \ {0}
  /\ FreeWithToken \in BOOLEAN

VARIABLES block,    \* block -> its header, or NULL
          declared, \* block -> the data size declared for it last
          live,     \* regions allocated and not released
          client,   \* regions whose handle or token a client has taken over
          lost      \* regions a call failed on that should release them

vars == <<tableVars, block, declared, live, client, lost>>

TypeOK ==
  /\ TableTypeOK
  /\ block \in [Blocks -> Header \cup {NULL}]
  /\ declared \in [Blocks -> Sizes]
  /\ live \subseteq Regions
  /\ client \subseteq Regions
  /\ lost \subseteq Regions

Init ==
  /\ TableInit
  /\ block = [b \in Blocks |-> NULL]
  /\ declared = [b \in Blocks |-> 0]
  /\ live = {} /\ client = {} /\ lost = {}

-----------------------------------------------------------------------------
(* The accessors of a field.                                               *)
SetNothing(header, field, value) == header \* mutant: the field is not written

SetTypeInstead(header, field, value) == \* mutant: another case
  [header EXCEPT !["Type"] = value]

SetFieldFallsThrough(header, field, value) == \* mutant: a case without return
  IF field = "Version" THEN [header EXCEPT !["Version"] = value, !["DataSize"] = value]
  ELSE [header EXCEPT ![field] = value]

SetFieldV2(header, field, value) == [header EXCEPT ![field] = value]

(* One word: of a longer OutputBuffer the other bytes stay.                *)
SetField(header, field, value) ==
  [header EXCEPT ![field] =
     IF field = "OutputBuffer" /\ device.longToken THEN Undefined ELSE value]

(* svp_header_extract_output_buffer may fail: the field then reads as NULL,*)
(* and the accessor returns TRUE as ever.                                  *)
GetFieldV2(header, field) ==
  IF field # "OutputBuffer" THEN {header[field]}
  ELSE {IF result = "success" THEN header[field] ELSE NULL :
          result \in CallResults("svp_header_extract_output_buffer")}

GetField(header, field) ==
  IF field = "OutputBuffer" /\ device.longToken THEN Undefined ELSE header[field]

(* Clients use the 32-bit accessors for a handle only if it is one word.   *)
SetHandle(header, handle) ==
  {SetFieldV2(header, "OutputBuffer", handle)} \cup
    IF device.longToken THEN {} ELSE {SetField(header, "OutputBuffer", handle)}

-----------------------------------------------------------------------------
(* gst_svp_allocate_data_block                                             *)
DefaultHeader ==
  [f \in FieldName |-> CASE f = "Type" -> InPlace [] f = "OutputBuffer" -> Undefined
                         [] OTHER -> 0]

WithHandle(header, type, handle) ==
  SetField([header EXCEPT !["OutputBuffer"] = handle], "Type", type)

(* gst_svp_allocate_sec_mem fails: this is only logged.                    *)
AllocationFailsTyped(b, header) == \* mutant: the Type is set whatever came back
  /\ "failure" \in CallResults("svp_alloc_sec_mem")
  /\ block' = [block EXCEPT ![b] = SetField(header, "Type", PreAllocatedHandle)]
  /\ UNCHANGED live

AllocationFails(b, header) ==
  /\ "failure" \in CallResults("svp_alloc_sec_mem")
  /\ block' = [block EXCEPT ![b] = header]
  /\ UNCHANGED live

AllocationGrants(b, header) ==
  /\ "success" \in CallResults("svp_alloc_sec_mem")
  /\ \/ /\ block' = [block EXCEPT ![b] = WithHandle(header, Fake, Dummy)]
        /\ UNCHANGED live
     \/ \E r \in Regions \ live :
          /\ block' = [block EXCEPT ![b] = WithHandle(header, PreAllocatedHandle, r)]
          /\ live' = live \cup {r}

AllocateDataBlock(b, encryptedDataSize, needSecMemAlloc) ==
  /\ Loaded /\ block[b] = NULL
  /\ LET header == SetField(DefaultHeader, "DataSize", encryptedDataSize % WordLimit)
     IN  \/ /\ ~needSecMemAlloc
            /\ block' = [block EXCEPT ![b] = header]
            /\ UNCHANGED live
         \/ /\ needSecMemAlloc
            /\ AllocationGrants(b, header) \/ AllocationFails(b, header)
  /\ declared' = [declared EXCEPT ![b] = encryptedDataSize]
  /\ UNCHANGED <<tableVars, client, lost>>

-----------------------------------------------------------------------------
(* gst_svp_free_data_block                                                 *)
(* gst_svp_release_sec_mem; nobody looks at its result.                    *)
ReleaseSecMem(handle) ==
  \/ /\ "success" \in CallResults("svp_release_sec_mem")
     /\ live' = live \ {handle}
     /\ UNCHANGED lost
  \/ /\ "failure" \in CallResults("svp_release_sec_mem")
     /\ lost' = lost \cup ({handle} \cap Regions)
     /\ UNCHANGED live

(* A handle that could not be read is not released either.                 *)
ReleaseNothing(header) ==
  /\ lost' = lost \cup ({header["OutputBuffer"]} \cap Regions)
  /\ UNCHANGED live

ReleaseFakeOnly(header) == \* mutant: PreAllocatedHandle is not released
  IF GetFieldV2(header, "Type") = {Fake}
  THEN \E handle \in GetFieldV2(header, "OutputBuffer") :
         IF handle # NULL THEN ReleaseSecMem(handle) ELSE ReleaseNothing(header)
  ELSE UNCHANGED <<live, lost>>

ReleaseOwned(header) ==
  IF GetFieldV2(header, "Type") \subseteq {PreAllocatedHandle, Fake}
  THEN \E handle \in GetFieldV2(header, "OutputBuffer") :
         IF handle # NULL THEN ReleaseSecMem(handle) ELSE ReleaseNothing(header)
  ELSE UNCHANGED <<live, lost>>

HasToken(header) == header["Type"] = Handle /\ header["OutputBuffer"] \in Regions

FreeDataBlock(b) ==
  /\ block[b] # NULL
  /\ FreeWithToken \/ ~HasToken(block[b])
  /\ ReleaseOwned(block[b])
  /\ block' = [block EXCEPT ![b] = NULL]
  /\ declared' = [declared EXCEPT ![b] = 0]
  /\ UNCHANGED <<tableVars, client>>

-----------------------------------------------------------------------------
(* The clients.                                                            *)
SetNumber(b, field, value) ==
  /\ block[b] # NULL
  /\ \E header \in {SetField(block[b], field, value), SetFieldV2(block[b], field, value)} :
       block' = [block EXCEPT ![b] = header]
  /\ declared' = [declared EXCEPT ![b] = IF field = "DataSize" THEN value ELSE @]
  /\ UNCHANGED <<tableVars, live, client, lost>>

(* Type := Handle, OutputBuffer := the token of a buffer the client holds. *)
SetToken(b, r) ==
  /\ block[b] # NULL /\ block[b]["Type"] = InPlace
  /\ r \in client
  /\ \E header \in SetHandle(SetField(block[b], "Type", Handle), r) :
       block' = [block EXCEPT ![b] = header]
  /\ client' = client \ {r}
  /\ UNCHANGED <<tableVars, declared, live, lost>>

(* Read the OutputBuffer, and unset it so that the block does not free it. *)
TakeOutputBuffer(b) ==
  /\ block[b] # NULL /\ block[b]["Type"] \in {Handle, PreAllocatedHandle}
  /\ \E r \in ({GetField(block[b], "OutputBuffer")} \cup GetFieldV2(block[b], "OutputBuffer"))
                \cap Regions :
       client' = client \cup {r}
  /\ \E header \in SetHandle(block[b], NULL) : block' = [block EXCEPT ![b] = header]
  /\ UNCHANGED <<tableVars, declared, live, lost>>

AllocateBuffer(r) ==
  /\ Loaded /\ r \notin live
  /\ live' = live \cup {r} /\ client' = client \cup {r}
  /\ UNCHANGED <<tableVars, block, declared, lost>>

FreeBuffer(r) ==
  /\ r \in client
  /\ live' = live \ {r} /\ client' = client \ {r}
  /\ UNCHANGED <<tableVars, block, declared, lost>>

Next ==
  \/ Load /\ UNCHANGED <<block, declared, live, client, lost>>
  \/ \E b \in Blocks :
       \/ \E size \in Sizes, need \in BOOLEAN : AllocateDataBlock(b, size, need)
       \/ FreeDataBlock(b) \/ TakeOutputBuffer(b)
       \/ \E field \in {"Version", "DataSize"}, w \in Words : SetNumber(b, field, w)
       \/ \E r \in Regions : SetToken(b, r)
  \/ \E r \in Regions : AllocateBuffer(r) \/ FreeBuffer(r)

Spec == Init /\ [][Next]_vars

-----------------------------------------------------------------------------
Refers(b) == IF block[b] = NULL THEN {} ELSE {block[b]["OutputBuffer"]} \cap Regions

(* The field a block would pass to gst_svp_release_sec_mem is secure       *)
(* memory that is allocated, or the platform's dummy, or unset: never the  *)
(* undefined bytes the header starts with, also when the allocation        *)
(* failed.                                                                 *)
ReleasesDefined ==
  \A b \in Blocks : block[b] # NULL /\ block[b]["Type"] \in {PreAllocatedHandle, Fake} =>
    block[b]["OutputBuffer"] \in live \cup {NULL, Dummy}

(* Secure memory has one owner, a block or a client, so that freeing a     *)
(* block never frees what a client or another block still uses.            *)
OneOwner ==
  \A b \in Blocks :
    /\ Refers(b) \cap client = {}
    /\ \A c \in Blocks \ {b} : Refers(b) \cap Refers(c) = {}

(* Nobody refers to released memory: what a client has taken over and what *)
(* the header of a block says, as a token or a handle, is allocated,       *)
(* whichever accessors set and unset it and whoever freed something else.  *)
NoDangling == client \cup UNION {Refers(b) : b \in Blocks} \subseteq live

(* All secure memory has an owner, but for what a call through the table   *)
(* that failed, or that the device did not implement, should have read     *)
(* from the header of a block or released.  For clients that take tokens   *)
(* out of a block before they free it.                                     *)
NoLeak == live \subseteq client \cup lost \cup UNION {Refers(b) : b \in Blocks}

(* Whichever accessor is used for it or for another field, DataSize reads  *)
(* as the size declared last for the block, as long as that fits 32 bits.  *)
SizeKept ==
  \A b \in Blocks : block[b] # NULL /\ declared[b] < WordLimit =>
    /\ GetField(block[b], "DataSize") = declared[b]
    /\ GetFieldV2(block[b], "DataSize") = {declared[b]}
=============================================================================
