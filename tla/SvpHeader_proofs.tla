--------------------------- MODULE SvpHeader_proofs ---------------------------
(***************************************************************************)
(* Proofs about data blocks and the dispatch table, for every set of       *)
(* blocks, regions and devices.                                            *)
(***************************************************************************)
EXTENDS SvpHeader, TLAPS

(* The table as far as the constructor has filled it: what the device has  *)
(* registered last in a slot, else the default if it has been set.         *)
RegisteredBy(s, n) == {k \in 1 .. n : SlotOf[device.calls[k].setter] = s}

Filled ==
  /\ made > 0 => done >= 16
  /\ done = 17 => made = Len(device.calls)
  /\ \A s \in Slots :
       /\ \A k \in RegisteredBy(s, made) :
            (\A j \in RegisteredBy(s, made) : j <= k) => impl[s] = device.calls[k].function
       /\ RegisteredBy(s, made) = {} =>
            \A k \in 1 .. 16 : k <= done /\ SlotOf[gst_svp_init[k]] = s => impl[s] = "default"

(* Blocks exist only once the library is loaded.                           *)
BlocksAfterLoad == \A b \in Blocks : block[b] # NULL => Loaded

(* What blocks and clients refer to is allocated.                          *)
Owned ==
  /\ client \subseteq live
  /\ \A b \in Blocks : Refers(b) \subseteq live

(* A block refers to memory by a handle or a token, never as InPlace.      *)
Typed ==
  \A b \in Blocks : Refers(b) # {} => block[b]["Type"] \in {Handle, PreAllocatedHandle}

IInv == /\ TypeOK /\ Filled /\ BlocksAfterLoad /\ Owned /\ Typed
        /\ OneOwner /\ ReleasesDefined /\ SizeKept

(* A size that fits is what a word holds of it, and every size leaves a    *)
(* word.                                                                   *)
LEMMA Truncated ==
  ASSUME NEW n \in Sizes
  PROVE  n % WordLimit \in Words /\ (n < WordLimit => n % WordLimit = n)
  BY HeaderAssumption DEF Sizes, Words

(* A header is determined by its fields.                                   *)
LEMMA HeaderFields ==
  ASSUME NEW h \in Header
  PROVE  /\ h["Type"] \in TokenType /\ h["OutputBuffer"] \in Handles
         /\ h["Version"] \in Words /\ h["DataSize"] \in Words
  BY DEF Header

(* Setting a field to one of its values leaves a header, with the other    *)
(* fields as they were.                                                    *)
LEMMA SetOne ==
  ASSUME NEW h \in Header, NEW f \in FieldName, NEW v,
         f = "Type" => v \in TokenType, f = "OutputBuffer" => v \in Handles,
         f \in {"Version", "DataSize"} => v \in Words
  PROVE  /\ [h EXCEPT ![f] = v] \in Header
         /\ [h EXCEPT ![f] = v][f] = v
         /\ \A g \in FieldName \ {f} : [h EXCEPT ![f] = v][g] = h[g]
<1>1. h \in [FieldName -> TokenType \cup Words \cup Handles]
  BY DEF Header
<1>2. v \in TokenType \cup Words \cup Handles
  BY DEF FieldName
<1>3. [h EXCEPT ![f] = v] \in [FieldName -> TokenType \cup Words \cup Handles]
  BY <1>1, <1>2
<1>4. [h EXCEPT ![f] = v][f] = v /\ \A g \in FieldName \ {f} : [h EXCEPT ![f] = v][g] = h[g]
  BY <1>1
<1>5. f \in {"Type", "OutputBuffer", "Version", "DataSize"}
  BY DEF FieldName
<1> QED
  BY <1>3, <1>4, <1>5, HeaderFields DEF Header, FieldName

(* What the setters do, for a handle only as the clients use them.         *)
LEMMA Setters ==
  ASSUME NEW h \in Header, NEW f \in FieldName, NEW v,
         f = "Type" => v \in TokenType, f = "OutputBuffer" => v \in Handles,
         f \in {"Version", "DataSize"} => v \in Words,
         NEW g \in {SetFieldV2(h, f, v), SetField(h, f, v)},
         f = "OutputBuffer" => g \in SetHandle(h, v)
  PROVE  /\ g \in Header /\ g[f] = v
         /\ \A e \in FieldName \ {f} : g[e] = h[e]
<1>1. g = [h EXCEPT ![f] = v]
  BY DEF SetFieldV2, SetField, SetHandle
<1>2. /\ [h EXCEPT ![f] = v] \in Header /\ [h EXCEPT ![f] = v][f] = v
      /\ \A e \in FieldName \ {f} : [h EXCEPT ![f] = v][e] = h[e]
  BY SetOne
<1> QED
  BY <1>1, <1>2

(* A header that refers to nothing and needs no release.                   *)
LEMMA DefaultIsHeader ==
  ASSUME NEW n \in Words
  PROVE  LET h == SetField(DefaultHeader, "DataSize", n)
         IN  /\ h \in Header /\ h["Type"] = InPlace
             /\ h["OutputBuffer"] = Undefined /\ h["DataSize"] = n
<1> DEFINE h == SetField(DefaultHeader, "DataSize", n)
<1>1. /\ DefaultHeader \in Header /\ DefaultHeader["Type"] = InPlace
      /\ DefaultHeader["OutputBuffer"] = Undefined
  <2>1. 0 \in Words
    BY HeaderAssumption DEF Words
  <2> QED
    BY <2>1 DEF DefaultHeader, Header, FieldName, TokenType, Handles
<1>2. h = [DefaultHeader EXCEPT !["DataSize"] = n]
  BY DEF SetField
<1>3. "DataSize" \in FieldName /\ {"Type", "OutputBuffer"} \subseteq FieldName \ {"DataSize"}
  BY DEF FieldName
<1> DEFINE g == [DefaultHeader EXCEPT !["DataSize"] = n]
<1>4. g \in Header /\ g["DataSize"] = n /\ \A e \in FieldName \ {"DataSize"} : g[e] = DefaultHeader[e]
  BY <1>1, <1>3, SetOne
<1> QED
  BY <1>1, <1>2, <1>3, <1>4

(* A block with secure memory of its own.                                  *)
LEMMA GrantedHeader ==
  ASSUME NEW h \in Header, NEW type \in TokenType, NEW handle \in Handles
  PROVE  LET g == WithHandle(h, type, handle)
         IN  /\ g \in Header /\ g["Type"] = type
             /\ g["OutputBuffer"] = handle /\ g["DataSize"] = h["DataSize"]
<1> DEFINE k == [h EXCEPT !["OutputBuffer"] = handle]
<1>1. "Type" \in FieldName /\ "OutputBuffer" \in FieldName /\ "DataSize" \in FieldName
  BY DEF FieldName
<1>2. k \in Header /\ k["OutputBuffer"] = handle /\ k["DataSize"] = h["DataSize"]
  BY <1>1, SetOne
<1>3. WithHandle(h, type, handle) = [k EXCEPT !["Type"] = type]
  BY DEF WithHandle, SetField
<1> HIDE DEF k
<1>4. /\ [k EXCEPT !["Type"] = type] \in Header /\ [k EXCEPT !["Type"] = type]["Type"] = type
      /\ \A e \in FieldName \ {"Type"} : [k EXCEPT !["Type"] = type][e] = k[e]
  BY <1>1, <1>2, SetOne
<1> QED
  BY <1>1, <1>2, <1>3, <1>4

-----------------------------------------------------------------------------
(* The device comes last in gst_svp_init, after sixteen setters.           *)
LEMMA DeviceLast ==
  /\ Len(gst_svp_init) = 17 /\ gst_svp_init[17] = InitDevice
  /\ \A k \in 1 .. 16 : gst_svp_init[k] \in Setter /\ gst_svp_init[k] # InitDevice
<1> USE DEF gst_svp_init, SecureBufferSetters, MemorySetters, BufferSetters
<1>1. Len(gst_svp_init) = 17 /\ gst_svp_init[17] = InitDevice
  OBVIOUS
<1>2. \A k \in 1 .. 16 : gst_svp_init[k] \in Setter
  BY DEF Setter, SlotOf
<1>3. \A k \in 1 .. 16 : gst_svp_init[k] # InitDevice
  BY DEF InitDevice
<1> QED
  BY <1>1, <1>2, <1>3

(* gst_svp_init calls every setter.                                        *)
LEMMA EverySetter ==
  ASSUME NEW setter \in Setter
  PROVE  \E k \in 1 .. 16 : gst_svp_init[k] = setter
BY DEF gst_svp_init, SecureBufferSetters, MemorySetters, BufferSetters, Setter, SlotOf

-----------------------------------------------------------------------------
(* A device calls setters, with a function or a null pointer.              *)
LEMMA DeviceCalls ==
  ASSUME TableTypeOK
  PROVE  /\ Len(device.calls) \in Nat
         /\ \A k \in 1 .. Len(device.calls) : /\ device.calls[k].setter \in Setter
                                             /\ device.calls[k].function \in {"platform", NULL}
<1>1. device \in [calls : Seq(Registration), longToken : BOOLEAN]
  BY DeviceAssumption DEF TableTypeOK
<1>2. device.calls \in Seq(Registration)
  BY <1>1
<1>3. ASSUME NEW k \in 1 .. Len(device.calls) PROVE device.calls[k] \in Registration
  BY <1>2
<1> QED
  BY <1>2, <1>3 DEF Registration

(* Nothing but the constructor changes the table.                          *)
LEMMA TableKept ==
  ASSUME UNCHANGED tableVars
  PROVE  (TableTypeOK => TableTypeOK') /\ (Filled => Filled') /\ (Loaded => Loaded')
<1>1. UNCHANGED device /\ UNCHANGED impl /\ UNCHANGED done /\ UNCHANGED made
  BY DEF tableVars
<1>2. \A s, n : RegisteredBy(s, n)' = RegisteredBy(s, n)
  BY <1>1 DEF RegisteredBy
<1>3. Filled => Filled'
  BY <1>1, <1>2 DEF Filled
<1> QED
  BY <1>1, <1>3 DEF TableTypeOK, Loaded

(* Before the library is loaded there are no blocks.                       *)
LEMMA InitIInv == Init => IInv
<1> SUFFICES ASSUME Init PROVE IInv
  OBVIOUS
<1>1. TableTypeOK /\ device \in Devices /\ done = 0 /\ made = 0
  <2>1. device \in Devices /\ done = 0 /\ made = 0 /\ impl = [s \in Slots |-> NULL]
    BY DEF Init, TableInit
  <2>2. device \in [calls : Seq(Registration), longToken : BOOLEAN]
    BY <2>1, DeviceAssumption
  <2>3. Len(device.calls) \in Nat
    BY <2>2
  <2> QED
    BY <2>1, <2>3, DeviceLast DEF TableTypeOK
<1>2. Filled
  <2>1. \A s : RegisteredBy(s, made) = {}
    BY <1>1 DEF RegisteredBy
  <2> QED
    BY <1>1, <2>1 DEF Filled
<1> QED
  BY <1>1, <1>2, HeaderAssumption
  DEF Init, IInv, TypeOK, BlocksAfterLoad, Owned, Typed, OneOwner,
      ReleasesDefined, SizeKept, Refers, Sizes

(* A setter writes its slot, and none other.                               *)
LEMMA SetterWrites ==
  ASSUME impl \in [Slots -> {NULL, "default", "platform"}], NEW setter \in Setter,
         NEW f \in {NULL, "default", "platform"},
         impl' = [impl EXCEPT ![SlotOf[setter]] = f]
  PROVE  /\ impl' \in [Slots -> {NULL, "default", "platform"}]
         /\ impl'[SlotOf[setter]] = f
         /\ \A s \in Slots : s # SlotOf[setter] => impl'[s] = impl[s]
<1>1. SlotOf[setter] \in Slots
  BY DEF Slots
<1> QED
  BY <1>1

(* The calls of the constructor fill the table.                            *)
LEMMA LoadFills ==
  ASSUME TableTypeOK, Filled, Load
  PROVE  TableTypeOK' /\ Filled' /\ ~Loaded /\ device' = device
<1>1. /\ Len(gst_svp_init) = 17 /\ gst_svp_init[17] = InitDevice
      /\ \A k \in 1 .. 16 : gst_svp_init[k] \in Setter /\ gst_svp_init[k] # InitDevice
  BY DeviceLast
<1>2. /\ Len(device.calls) \in Nat
      /\ \A k \in 1 .. Len(device.calls) : /\ device.calls[k].setter \in Setter
                                          /\ device.calls[k].function \in {"platform", NULL}
  BY DeviceCalls
<1>3. ~Loaded /\ done \in 0 .. 16 /\ device' = device /\ made \in 0 .. Len(device.calls)
  BY <1>1 DEF Load, SetDefault, RegisterFunction, EndInitDevice, Loaded, TableTypeOK
<1>4. CASE SetDefault
  <2>1. done + 1 \in 1 .. 16 /\ done' = done + 1 /\ made' = made /\ made = 0
    <3>1. done + 1 # 17
      BY <1>1, <1>4 DEF SetDefault
    <3> QED
      BY <1>3, <1>4, <3>1 DEF SetDefault, Filled
  <2> DEFINE setter == gst_svp_init[done + 1]
  <2>2. setter \in Setter /\ impl' = [impl EXCEPT ![SlotOf[setter]] = "default"]
    BY <1>1, <1>4, <2>1 DEF SetDefault
  <2> HIDE DEF setter
  <2>3. /\ impl' \in [Slots -> {NULL, "default", "platform"}]
        /\ impl'[SlotOf[setter]] = "default"
        /\ \A s \in Slots : s # SlotOf[setter] => impl'[s] = impl[s]
    BY <2>2, SetterWrites DEF TableTypeOK
  <2>4. TableTypeOK'
    BY <1>1, <1>3, <2>1, <2>3 DEF TableTypeOK
  <2>5. \A s : RegisteredBy(s, made) = {} /\ RegisteredBy(s, made)' = {}
    BY <1>3, <2>1 DEF RegisteredBy
  <2>6. ASSUME NEW s \in Slots, NEW k \in 1 .. 16, k <= done + 1, SlotOf[gst_svp_init[k]] = s
        PROVE  impl'[s] = "default"
    <3>1. CASE k = done + 1
      BY <2>3, <2>6, <3>1 DEF setter
    <3>2. CASE k # done + 1
      <4>1. impl[s] = "default"
        BY <1>3, <2>5, <2>6, <3>2 DEF Filled
      <4> QED
        BY <2>3, <4>1
    <3> QED
      BY <3>1, <3>2
  <2>7. Filled'
    BY <2>1, <2>5, <2>6 DEF Filled
  <2> QED
    BY <1>3, <2>4, <2>7
<1>5. CASE RegisterFunction
  <2>1. /\ done = 16 /\ done' = done /\ made' = made + 1 /\ made + 1 \in 1 .. Len(device.calls)
    <3>1. \A k \in 1 .. 16 : done + 1 # k
      BY <1>1, <1>5 DEF RegisterFunction
    <3> QED
      BY <1>2, <1>3, <1>5, <3>1 DEF RegisterFunction
  <2> DEFINE setter == device.calls[made + 1].setter
             f == device.calls[made + 1].function
  <2>2. /\ setter \in Setter /\ f \in {NULL, "default", "platform"}
        /\ impl' = [impl EXCEPT ![SlotOf[setter]] = f]
    BY <1>2, <1>5, <2>1 DEF RegisterFunction
  <2> HIDE DEF setter, f
  <2>3. /\ impl' \in [Slots -> {NULL, "default", "platform"}]
        /\ impl'[SlotOf[setter]] = f
        /\ \A s \in Slots : s # SlotOf[setter] => impl'[s] = impl[s]
    BY <2>2, SetterWrites DEF TableTypeOK
  <2>4. TableTypeOK'
    BY <1>1, <1>3, <2>1, <2>3 DEF TableTypeOK
  <2>5. \A s : RegisteredBy(s, made)' =
               RegisteredBy(s, made) \cup (IF s = SlotOf[setter] THEN {made + 1} ELSE {})
    BY <1>3, <2>1 DEF RegisteredBy, setter
  <2>6. \A s : \A k \in RegisteredBy(s, made) : k \in Nat /\ k <= made
    BY <1>3 DEF RegisteredBy
  <2>7. ASSUME NEW s \in Slots
        PROVE  /\ \A k \in RegisteredBy(s, made)' :
                    (\A j \in RegisteredBy(s, made)' : j <= k) => impl'[s] = device.calls[k].function
               /\ RegisteredBy(s, made)' = {} => \A k \in 1 .. 16 :
                    k <= done /\ SlotOf[gst_svp_init[k]] = s => impl'[s] = "default"
    <3>1. CASE s = SlotOf[setter]
      <4>1. made + 1 \in RegisteredBy(s, made)'
        BY <2>5, <3>1
      <4>2. ASSUME NEW k \in RegisteredBy(s, made)', \A j \in RegisteredBy(s, made)' : j <= k
            PROVE  k = made + 1
        BY <1>3, <2>5, <2>6, <4>1, <4>2
      <4> QED
        BY <2>3, <3>1, <4>1, <4>2 DEF f
    <3>2. CASE s # SlotOf[setter]
      BY <2>3, <2>5, <3>2 DEF Filled
    <3> QED
      BY <3>1, <3>2
  <2>8. Filled'
    BY <1>3, <2>1, <2>7 DEF Filled
  <2> QED
    BY <1>3, <2>4, <2>8
<1>6. CASE EndInitDevice
  <2>1. \A k \in 1 .. 16 : done + 1 # k
    BY <1>1, <1>6 DEF EndInitDevice
  <2>2. done = 16 /\ done' = 17 /\ made = Len(device.calls) /\ UNCHANGED <<device, impl, made>>
    BY <1>3, <1>6, <2>1 DEF EndInitDevice
  <2>3. TableTypeOK'
    BY <1>1, <2>2 DEF TableTypeOK
  <2>4. \A s : RegisteredBy(s, made)' = RegisteredBy(s, made)
    BY <2>2 DEF RegisteredBy
  <2>5. Filled'
    BY <2>2, <2>4 DEF Filled
  <2> QED
    BY <1>3, <2>3, <2>5
<1> QED
  BY <1>4, <1>5, <1>6 DEF Load

(* The loading of the library.                                             *)
LEMMA LoadIInv == IInv /\ Load /\ UNCHANGED <<block, declared, live, client, lost>> => IInv'
<1> SUFFICES ASSUME IInv, Load, UNCHANGED <<block, declared, live, client, lost>> PROVE IInv'
  OBVIOUS
<1>1. TableTypeOK' /\ Filled' /\ ~Loaded /\ device' = device
  BY LoadFills DEF IInv, TypeOK
<1>2. \A b \in Blocks : block[b] = NULL
  BY <1>1 DEF IInv, BlocksAfterLoad
<1> QED
  BY <1>1, <1>2
  DEF IInv, TypeOK, BlocksAfterLoad, Owned, Typed, OneOwner, ReleasesDefined, SizeKept, Refers

(* A block gets another header, and nothing else about the others changes: *)
(* what is left to show of the invariant is about that header.             *)
LEMMA OneBlock ==
  ASSUME IInv, UNCHANGED tableVars, Loaded,
         NEW b \in Blocks, NEW g \in Header, NEW n \in Sizes,
         block' = [block EXCEPT ![b] = g],
         declared' = [declared EXCEPT ![b] = n],
         n < WordLimit => g["DataSize"] = n,
         live' \subseteq Regions, client' \subseteq live', lost' \subseteq Regions,
         \A c \in Blocks \ {b} : Refers(c) \subseteq live' \ client',
         {g["OutputBuffer"]} \cap Regions \subseteq live' \ client',
         \A c \in Blocks \ {b} : g["OutputBuffer"] \notin Refers(c),
         g["OutputBuffer"] \in Regions => g["Type"] \in {Handle, PreAllocatedHandle},
         g["Type"] \in {PreAllocatedHandle, Fake} => g["OutputBuffer"] \in live' \cup {NULL, Dummy}
  PROVE  IInv'
<1>1. /\ block \in [Blocks -> Header \cup {NULL}] /\ declared \in [Blocks -> Sizes]
      /\ block'[b] = g /\ \A c \in Blocks \ {b} : block'[c] = block[c]
      /\ declared'[b] = n /\ \A c \in Blocks \ {b} : declared'[c] = declared[c]
  BY DEF IInv, TypeOK
<1>2. g # NULL
  BY HeaderAssumption
<1>3. Refers(b)' = {g["OutputBuffer"]} \cap Regions /\ \A c \in Blocks \ {b} : Refers(c)' = Refers(c)
  BY <1>1, <1>2 DEF Refers
<1>4. TypeOK' /\ Filled' /\ BlocksAfterLoad'
  <2>1. TypeOK'
    BY <1>1 DEF IInv, TypeOK, TableTypeOK, tableVars
  <2>2. Filled' /\ BlocksAfterLoad'
    BY <1>1, TableKept DEF IInv, BlocksAfterLoad
  <2> QED
    BY <2>1, <2>2
<1>5. Owned' /\ OneOwner'
  <2>1. Owned'
    BY <1>3 DEF Owned
  <2>2. OneOwner'
    BY <1>3 DEF IInv, OneOwner
  <2> QED
    BY <2>1, <2>2
<1>6. Typed'
  BY <1>1, <1>3 DEF IInv, Typed, tableVars
<1>7. ReleasesDefined'
  <2> SUFFICES ASSUME NEW c \in Blocks, block'[c] # NULL, block'[c]["Type"] \in {PreAllocatedHandle, Fake}
               PROVE  block'[c]["OutputBuffer"] \in live' \cup {NULL, Dummy}
    BY DEF ReleasesDefined
  <2>1. CASE c = b
    BY <2>1, <1>1
  <2>2. CASE c # b
    <3>1. block[c]["OutputBuffer"] \in live \cup {NULL, Dummy}
      BY <2>2, <1>1 DEF IInv, ReleasesDefined
    <3>2. block[c]["OutputBuffer"] \in live => Refers(c) = {block[c]["OutputBuffer"]}
      BY <2>2, <1>1 DEF Refers, IInv, TypeOK
    <3> QED
      BY <2>2, <3>1, <3>2, <1>1
  <2> QED
    BY <2>1, <2>2
<1>8. SizeKept'
  BY <1>1 DEF IInv, SizeKept, GetField, GetFieldV2
<1> QED
  BY <1>4, <1>5, <1>6, <1>7, <1>8 DEF IInv

(* Allocation: the header of the new block refers to memory that was free, *)
(* or to nothing.                                                          *)
LEMMA AllocateIInv ==
  ASSUME IInv, NEW b \in Blocks, NEW size \in Sizes, NEW need \in BOOLEAN,
         AllocateDataBlock(b, size, need)
  PROVE  IInv'
<1> DEFINE h == SetField(DefaultHeader, "DataSize", size % WordLimit)
<1>1. /\ h \in Header /\ h["Type"] = InPlace /\ h["OutputBuffer"] = Undefined
      /\ size < WordLimit => h["DataSize"] = size
  BY Truncated, DefaultIsHeader
<1>2. /\ Loaded /\ UNCHANGED <<tableVars, client, lost>> /\ block[b] = NULL
      /\ declared' = [declared EXCEPT ![b] = size]
      /\ AllocationGrants(b, h) \/ (block' = [block EXCEPT ![b] = h] /\ live' = live)
  BY DEF AllocateDataBlock, AllocationFails
<1> HIDE DEF h
<1>3. /\ client \subseteq live /\ live \subseteq Regions /\ lost \subseteq Regions
      /\ \A c \in Blocks : Refers(c) \subseteq live \ client
      /\ TableTypeOK /\ Filled
  BY DEF IInv, Owned, TypeOK, OneOwner
<1>4. CASE block' = [block EXCEPT ![b] = h] /\ live' = live
  <2>1. block' = [block EXCEPT ![b] = h] /\ live' = live
    BY <1>4
  <2>2. h["OutputBuffer"] \notin Regions
    BY <1>1, HeaderAssumption
  <2>3. h["Type"] \notin {PreAllocatedHandle, Fake}
    BY <1>1 DEF InPlace, PreAllocatedHandle, Fake
  <2>4. client' \subseteq live' /\ live' \subseteq Regions /\ lost' \subseteq Regions
    BY <1>2, <1>3, <2>1
  <2>5. \A c \in Blocks : Refers(c) \subseteq Regions /\ Refers(c) \subseteq live' \ client'
    BY <1>2, <1>3, <2>1
  <2> QED
    BY <1>1, <1>2, <2>1, <2>2, <2>3, <2>4, <2>5, OneBlock
<1>5. CASE AllocationGrants(b, h)
  <2>2. PICK type \in {PreAllocatedHandle, Fake}, handle \in (Regions \ live) \cup {Dummy} :
          /\ block' = [block EXCEPT ![b] = WithHandle(h, type, handle)]
          /\ live' = live \cup ({handle} \cap Regions)
          /\ handle \in Regions => type = PreAllocatedHandle
    BY <1>5, HeaderAssumption DEF AllocationGrants
  <2> DEFINE g == WithHandle(h, type, handle)
  <2>3. /\ g \in Header /\ g["Type"] = type /\ g["OutputBuffer"] = handle
        /\ g["DataSize"] = h["DataSize"]
    <3>1. type \in TokenType /\ handle \in Handles
      BY DEF TokenType, Handles
    <3> QED
      BY <1>1, <3>1, GrantedHeader
  <2> HIDE DEF g
  <2>4. block' = [block EXCEPT ![b] = g]
    BY <2>2 DEF g
  <2>5. handle \in live' \cup {NULL, Dummy} /\ handle \notin live
    BY <1>3, <2>2, HeaderAssumption
  <2>6. /\ client' \subseteq live' /\ live' \subseteq Regions /\ lost' \subseteq Regions
    BY <1>2, <1>3, <2>2
  <2>7. UNCHANGED tableVars /\ Loaded /\ declared' = [declared EXCEPT ![b] = size]
    BY <1>2
  <2>8. \A c \in Blocks : Refers(c) \subseteq live' \ client' /\ handle \notin Refers(c)
    BY <1>2, <1>3, <2>2, <2>5
  <2>9. {handle} \cap Regions \subseteq live' \ client'
    BY <1>2, <1>3, <2>2, <2>5
  <2>10. /\ g \in Header /\ (size < WordLimit => g["DataSize"] = size)
         /\ {g["OutputBuffer"]} \cap Regions \subseteq live' \ client'
         /\ g["OutputBuffer"] \in live' \cup {NULL, Dummy}
    BY <1>1, <2>3, <2>5, <2>9
  <2>11. /\ \A c \in Blocks \ {b} : g["OutputBuffer"] \notin Refers(c)
         /\ g["OutputBuffer"] \in Regions => g["Type"] \in {Handle, PreAllocatedHandle}
    BY <2>2, <2>3, <2>8
  <2> QED
    BY <2>4, <2>6, <2>7, <2>8, <2>10, <2>11, OneBlock
<1> QED
  BY <1>2, <1>4, <1>5

(* Freeing a block releases only memory the block itself referred to.      *)
LEMMA FreeIInv ==
  ASSUME IInv, NEW b \in Blocks, FreeDataBlock(b)
  PROVE  IInv'
<1>1. /\ block[b] \in Header /\ block[b] # NULL /\ UNCHANGED <<tableVars, client>>
      /\ block' = [block EXCEPT ![b] = NULL] /\ declared' = [declared EXCEPT ![b] = 0]
  BY DEF FreeDataBlock, IInv, TypeOK
<1>2. /\ live' \subseteq live /\ live \ live' \subseteq Refers(b)
      /\ lost' \subseteq lost \cup Refers(b)
  BY <1>1 DEF FreeDataBlock, ReleaseOwned, ReleaseSecMem, ReleaseNothing, GetFieldV2, Refers, IInv, TypeOK
<1>3. Refers(b)' = {} /\ \A c \in Blocks \ {b} : Refers(c)' = Refers(c)
  BY <1>1 DEF Refers, IInv, TypeOK
<1>4. \A c \in Blocks \ {b} : block'[c] = block[c] /\ declared'[c] = declared[c]
  BY <1>1 DEF IInv, TypeOK
<1>5. TypeOK'
  <2>1. 0 \in Sizes
    BY HeaderAssumption DEF Sizes
  <2> QED
    BY <1>1, <1>2, <2>1 DEF IInv, TypeOK, TableTypeOK, tableVars, Refers
<1>6. Filled' /\ BlocksAfterLoad' /\ Owned' /\ Typed' /\ OneOwner'
  <2>1. Filled' /\ BlocksAfterLoad'
    BY <1>1, <1>4, TableKept DEF IInv, BlocksAfterLoad
  <2>2. Owned' /\ OneOwner'
    BY <1>1, <1>2, <1>3 DEF IInv, Owned, OneOwner
  <2>3. Typed'
    BY <1>1, <1>3, <1>4 DEF IInv, Typed, tableVars
  <2> QED
    BY <2>1, <2>2, <2>3
<1>7. ReleasesDefined'
  <2> SUFFICES ASSUME NEW c \in Blocks \ {b}, block[c] # NULL,
                      block[c]["Type"] \in {PreAllocatedHandle, Fake}
               PROVE  block[c]["OutputBuffer"] \in live' \cup {NULL, Dummy}
    BY <1>1, <1>4 DEF ReleasesDefined, IInv, TypeOK
  <2>1. block[c]["OutputBuffer"] \in live \cup {NULL, Dummy}
    BY DEF IInv, ReleasesDefined
  <2>2. block[c]["OutputBuffer"] \in live => block[c]["OutputBuffer"] \in Refers(c)
    BY DEF Refers, IInv, TypeOK
  <2>3. Refers(b) \cap Refers(c) = {}
    BY DEF IInv, OneOwner
  <2> QED
    BY <1>2, <2>1, <2>2, <2>3
<1>8. SizeKept'
  BY <1>1, <1>4 DEF IInv, SizeKept, GetField, GetFieldV2, TypeOK
<1> QED
  BY <1>5, <1>6, <1>7, <1>8 DEF IInv

(* A client changes the header of a block and takes over, or hands over,   *)
(* at most the memory the header refers to.                                *)
LEMMA ClientIInv ==
  ASSUME IInv, NEW b \in Blocks
  PROVE  /\ \A field \in {"Version", "DataSize"}, w \in Words : SetNumber(b, field, w) => IInv'
         /\ \A r \in Regions : SetToken(b, r) => IInv'
         /\ TakeOutputBuffer(b) => IInv'
<1>1. /\ block[b] # NULL => block[b] \in Header /\ Loaded /\ block[b]["OutputBuffer"] \in Handles
      /\ Words \subseteq Sizes /\ declared[b] \in Sizes
      /\ declared = [declared EXCEPT ![b] = declared[b]]
      /\ client \subseteq live /\ live \subseteq Regions /\ lost \subseteq Regions
      /\ \A c \in Blocks : Refers(c) \subseteq live \ client
      /\ \A c \in Blocks \ {b} : Refers(b) \cap Refers(c) = {}
      /\ block[b] # NULL => Refers(b) = {block[b]["OutputBuffer"]} \cap Regions
  BY HeaderAssumption
  DEF IInv, BlocksAfterLoad, TypeOK, Owned, OneOwner, Words, Sizes, Refers, Header
<1>2. ASSUME NEW field \in {"Version", "DataSize"}, NEW w \in Words, SetNumber(b, field, w)
      PROVE  IInv'
  <2>1. PICK g \in {SetField(block[b], field, w), SetFieldV2(block[b], field, w)} :
          block' = [block EXCEPT ![b] = g]
    BY <1>2 DEF SetNumber
  <2>2. /\ block[b] # NULL /\ UNCHANGED <<tableVars, live, client, lost>>
        /\ declared' = [declared EXCEPT ![b] = IF field = "DataSize" THEN w ELSE declared[b]]
    BY <1>2 DEF SetNumber
  <2>3. field \in FieldName /\ {"Type", "OutputBuffer", "DataSize"} \subseteq FieldName /\ field # "OutputBuffer"
    BY DEF FieldName
  <2>4. g \in Header /\ g[field] = w /\ \A e \in FieldName \ {field} : g[e] = block[b][e]
    BY <1>1, <2>1, <2>2, <2>3, Setters
  <2>5. g["Type"] = block[b]["Type"] /\ g["OutputBuffer"] = block[b]["OutputBuffer"]
    BY <2>3, <2>4
  <2> DEFINE n == IF field = "DataSize" THEN w ELSE declared[b]
  <2>6. n \in Sizes /\ (n < WordLimit => g["DataSize"] = n)
    BY <1>1, <2>2, <2>3, <2>4 DEF IInv, SizeKept, GetField
  <2>7. /\ g["OutputBuffer"] \in Regions => g["Type"] \in {Handle, PreAllocatedHandle}
        /\ g["Type"] \in {PreAllocatedHandle, Fake} => g["OutputBuffer"] \in live \cup {NULL, Dummy}
    BY <1>1, <2>2, <2>5 DEF IInv, Typed, ReleasesDefined
  <2> QED
    BY <1>1, <2>1, <2>2, <2>4, <2>5, <2>6, <2>7, OneBlock
<1>3. ASSUME NEW r \in Regions, SetToken(b, r) PROVE IInv'
  <2>1. PICK g \in SetHandle(SetField(block[b], "Type", Handle), r) : block' = [block EXCEPT ![b] = g]
    BY <1>3 DEF SetToken
  <2>2. /\ block[b] # NULL /\ UNCHANGED <<tableVars, declared, live, lost>>
        /\ r \in client /\ client' = client \ {r}
    BY <1>3 DEF SetToken
  <2> DEFINE h == SetField(block[b], "Type", Handle)
  <2>3. "Type" \in FieldName /\ "OutputBuffer" \in FieldName /\ "DataSize" \in FieldName /\ Handle \in TokenType
        /\ r \in Handles
    BY DEF FieldName, TokenType, Handles
  <2>4. h \in Header /\ h["Type"] = Handle /\ h["DataSize"] = block[b]["DataSize"]
    BY <1>1, <2>2, <2>3, Setters
  <2>5. g \in {SetFieldV2(h, "OutputBuffer", r), SetField(h, "OutputBuffer", r)}
    BY <2>1 DEF SetHandle
  <2>6. g \in SetHandle(h, r)
    BY <2>1
  <2> HIDE DEF h
  <2>7. g \in Header /\ g["OutputBuffer"] = r /\ \A e \in FieldName \ {"OutputBuffer"} : g[e] = h[e]
    BY <2>3, <2>4, <2>5, <2>6, Setters
  <2>8. g["Type"] = Handle /\ g["DataSize"] = block[b]["DataSize"]
    BY <2>3, <2>4, <2>7
  <2>9. Handle \notin {PreAllocatedHandle, Fake}
    BY DEF Handle, PreAllocatedHandle, Fake
  <2>10. declared[b] < WordLimit => g["DataSize"] = declared[b]
    BY <2>2, <2>8 DEF IInv, SizeKept, GetField
  <2>11. /\ UNCHANGED tableVars /\ declared[b] \in Sizes
         /\ declared' = [declared EXCEPT ![b] = declared[b]] /\ Loaded
         /\ client' \subseteq live' /\ live' = live /\ live' \subseteq Regions /\ lost' \subseteq Regions
    BY <1>1, <2>2
  <2>12. /\ \A c \in Blocks : Refers(c) \subseteq live' \ client'
         /\ r \in live' \ client' /\ \A c \in Blocks : r \notin Refers(c)
    BY <1>1, <2>2
  <2>13. /\ {g["OutputBuffer"]} \cap Regions \subseteq live' \ client'
         /\ \A c \in Blocks \ {b} : g["OutputBuffer"] \notin Refers(c)
         /\ g["Type"] \notin {PreAllocatedHandle, Fake}
    BY <2>7, <2>8, <2>9, <2>12
  <2> QED
    BY <2>1, <2>7, <2>8, <2>10, <2>11, <2>12, <2>13, OneBlock
<1>4. ASSUME TakeOutputBuffer(b) PROVE IInv'
  <2>1. PICK g \in SetHandle(block[b], NULL) : block' = [block EXCEPT ![b] = g]
    BY <1>4 DEF TakeOutputBuffer
  <2>2. PICK r \in ({GetField(block[b], "OutputBuffer")} \cup GetFieldV2(block[b], "OutputBuffer")) \cap Regions :
          client' = client \cup {r}
    BY <1>4 DEF TakeOutputBuffer
  <2>3. block[b] # NULL /\ UNCHANGED <<tableVars, declared, live, lost>>
    BY <1>4 DEF TakeOutputBuffer
  <2>4. r = block[b]["OutputBuffer"] /\ r \in Refers(b) /\ NULL \notin Regions
    BY <1>1, <2>2, <2>3, HeaderAssumption DEF GetField, GetFieldV2
  <2>5. "Type" \in FieldName /\ "OutputBuffer" \in FieldName /\ "DataSize" \in FieldName /\ NULL \in Handles
    BY DEF FieldName, Handles
  <2>6. g \in Header /\ g["OutputBuffer"] = NULL /\ \A e \in FieldName \ {"OutputBuffer"} : g[e] = block[b][e]
    <3>1. g \in {SetFieldV2(block[b], "OutputBuffer", NULL), SetField(block[b], "OutputBuffer", NULL)}
      BY <2>1 DEF SetHandle
    <3> QED
      BY <1>1, <2>1, <2>3, <2>5, <3>1, Setters
  <2>7. declared[b] < WordLimit => g["DataSize"] = declared[b]
    BY <2>3, <2>5, <2>6 DEF IInv, SizeKept, GetField
  <2>8. /\ UNCHANGED tableVars /\ declared[b] \in Sizes
        /\ declared' = [declared EXCEPT ![b] = declared[b]] /\ Loaded
        /\ client' \subseteq live' /\ live' = live /\ live' \subseteq Regions /\ lost' \subseteq Regions
    BY <1>1, <2>2, <2>3, <2>4
  <2>9. \A c \in Blocks \ {b} : Refers(c) \subseteq live' \ client'
    BY <1>1, <2>2, <2>3, <2>4
  <2>10. g["OutputBuffer"] \notin Regions /\ \A c \in Blocks \ {b} : g["OutputBuffer"] \notin Refers(c)
    BY <2>4, <2>6 DEF Refers
  <2> QED
    BY <2>1, <2>6, <2>7, <2>8, <2>9, <2>10, OneBlock
<1> QED
  BY <1>2, <1>3, <1>4

(* Buffers a client allocates and frees by itself.                         *)
LEMMA BufferIInv ==
  ASSUME IInv, NEW r \in Regions, AllocateBuffer(r) \/ FreeBuffer(r)
  PROVE  IInv'
<1>1. UNCHANGED <<tableVars, block, declared, lost>>
  BY DEF AllocateBuffer, FreeBuffer
<1>2. \A b \in Blocks : Refers(b)' = Refers(b)
  BY <1>1 DEF Refers
<1>3. /\ client' \subseteq live' /\ live' \subseteq Regions
      /\ \A b \in Blocks : Refers(b) \subseteq live' \ client'
  BY DEF AllocateBuffer, FreeBuffer, IInv, Owned, OneOwner, TypeOK
<1>4. TypeOK' /\ Filled' /\ BlocksAfterLoad' /\ Typed' /\ SizeKept'
  <2>1. TypeOK' /\ Filled'
    BY <1>1, <1>3, TableKept DEF IInv, TypeOK
  <2>2. BlocksAfterLoad' /\ Typed' /\ SizeKept'
    <3>1. BlocksAfterLoad' /\ Typed'
      BY <1>1, <1>2, TableKept DEF IInv, BlocksAfterLoad, Typed
    <3> QED
      BY <1>1, <3>1 DEF IInv, SizeKept, GetField, GetFieldV2
  <2> QED
    BY <2>1, <2>2
<1>5. Owned' /\ OneOwner'
  BY <1>2, <1>3 DEF IInv, Owned, OneOwner
<1>6. ReleasesDefined'
  <2> SUFFICES ASSUME NEW b \in Blocks, block[b] # NULL, block[b]["Type"] \in {PreAllocatedHandle, Fake}
               PROVE  block[b]["OutputBuffer"] \in live' \cup {NULL, Dummy}
    BY <1>1 DEF ReleasesDefined
  <2>1. block[b]["OutputBuffer"] \in live => block[b]["OutputBuffer"] \in Refers(b)
    BY DEF Refers, IInv, TypeOK
  <2> QED
    BY <1>3, <2>1 DEF IInv, ReleasesDefined
<1> QED
  BY <1>4, <1>5, <1>6 DEF IInv

(* Every step preserves the inductive invariant.                           *)
LEMMA NextIInv == IInv /\ [Next]_vars => IInv'
<1> SUFFICES ASSUME IInv, [Next]_vars PROVE IInv'
  OBVIOUS
<1>1. CASE Load /\ UNCHANGED <<block, declared, live, client, lost>>
  BY <1>1, LoadIInv
<1>2. ASSUME NEW b \in Blocks, NEW size \in Sizes, NEW need \in BOOLEAN, AllocateDataBlock(b, size, need)
      PROVE  IInv'
  BY <1>2, AllocateIInv
<1>3. ASSUME NEW b \in Blocks, FreeDataBlock(b) PROVE IInv'
  BY <1>3, FreeIInv
<1>4. ASSUME NEW b \in Blocks,
             \/ TakeOutputBuffer(b)
             \/ \E field \in {"Version", "DataSize"}, w \in Words : SetNumber(b, field, w)
             \/ \E r \in Regions : SetToken(b, r)
      PROVE  IInv'
  BY <1>4, ClientIInv
<1>5. ASSUME NEW r \in Regions, AllocateBuffer(r) \/ FreeBuffer(r) PROVE IInv'
  BY <1>5, BufferIInv
<1>6. CASE UNCHANGED vars
  <2>1. Filled' /\ TableTypeOK' /\ BlocksAfterLoad'
    BY <1>6, TableKept DEF vars, IInv, TypeOK, BlocksAfterLoad
  <2> QED
    BY <1>6, <2>1
    DEF vars, IInv, TypeOK, Owned, Typed, OneOwner,
        ReleasesDefined, SizeKept, Refers, GetField, GetFieldV2
<1> QED
  BY <1>1, <1>2, <1>3, <1>4, <1>5, <1>6 DEF Next

(* The inductive invariant holds in every reachable state.                 *)
THEOREM Invariant == Spec => []IInv
BY InitIInv, NextIInv, PTL DEF Spec

-----------------------------------------------------------------------------
(* Every variable keeps its type, a header its four fields.                *)
THEOREM TypeCorrect == Spec => []TypeOK
<1>1. IInv => TypeOK
  BY DEF IInv
<1> QED
  BY Invariant, <1>1, PTL

(* Whatever setters a device calls, in whatever order, with null pointers  *)
(* or not: a call through the loaded table reaches what the device         *)
(* registered last, or fails in a default.                                 *)
THEOREM TableReady == Spec => []DispatchReady
<1>1. IInv => DispatchReady
  <2> SUFFICES ASSUME IInv, Loaded PROVE DispatchReady
    BY DEF DispatchReady
  <2>1. /\ NULL \notin {"default", "platform"} /\ "default" # "platform"
        /\ impl \in [Slots -> {NULL, "default", "platform"}]
        /\ \A k \in 1 .. Len(device.calls) : device.calls[k].function \in {"platform", NULL}
    BY DeviceAssumption, DeviceCalls DEF IInv, TypeOK, TableTypeOK
  <2>2. done = 17 /\ made = Len(device.calls)
    BY DeviceLast DEF Loaded, IInv, Filled
  <2>3. \A s : RegisteredBy(s, made) = Registered(s)
    BY <2>2 DEF RegisteredBy, Registered
  <2>4. ASSUME NEW s \in Slots, Registered(s) = {}
        PROVE  CallResults(s) = {DefaultResult(s)}
    <3>1. PICK setter \in Setter : SlotOf[setter] = s
      BY DEF Slots
    <3>2. PICK k \in 1 .. 16 : gst_svp_init[k] = setter
      BY EverySetter
    <3>3. RegisteredBy(s, made) = {} /\ k <= done /\ SlotOf[gst_svp_init[k]] = s
      BY <2>2, <2>3, <2>4, <3>1, <3>2
    <3>4. impl[s] = "default"
      BY <3>3 DEF IInv, Filled
    <3> QED
      BY <2>1, <3>4 DEF CallResults
  <2>5. ASSUME NEW s \in Slots, NEW k \in Registered(s), \A j \in Registered(s) : j <= k
        PROVE  CallResults(s) = IF device.calls[k].function = NULL THEN {} ELSE Results(s)
    <3>1. impl[s] = device.calls[k].function
      BY <2>3, <2>5 DEF IInv, Filled
    <3>2. device.calls[k].function \in {"platform", NULL}
      BY <2>1, <2>5 DEF Registered
    <3> QED
      BY <2>1, <3>1, <3>2 DEF CallResults
  <2>6. gst_svp_is_multiple_decrypt_supported
          <=> "success" \in CallResults("gst_buffer_array_append_svp_transform")
    <3> DEFINE s == "gst_buffer_array_append_svp_transform"
    <3>1. s \in Slots /\ s \notin Void
      BY DEF Slots, Setter, SlotOf, Void
    <3>2. impl[s] \in {NULL, "default", "platform"}
      BY <2>1, <3>1
    <3> QED
      BY <2>1, <3>1, <3>2
      DEF gst_svp_is_multiple_decrypt_supported, CallResults, Results, DefaultResult
  <2> QED
    BY <2>4, <2>5, <2>6 DEF DispatchReady
<1> QED
  BY Invariant, <1>1, PTL

(* Freeing a block releases secure memory that is allocated, a dummy, or   *)
(* nothing, also when its allocation had failed.                           *)
THEOREM ReleasesAreDefined == Spec => []ReleasesDefined
<1>1. IInv => ReleasesDefined
  BY DEF IInv
<1> QED
  BY Invariant, <1>1, PTL

(* Secure memory has one owner: a block or a client.                       *)
THEOREM OwnersExclusive == Spec => []OneOwner
<1>1. IInv => OneOwner
  BY DEF IInv
<1> QED
  BY Invariant, <1>1, PTL

(* What a client or a block refers to is allocated: nobody uses memory     *)
(* that was released, for any devices and clients of any kind.             *)
THEOREM MemorySafe == Spec => []NoDangling
<1>1. IInv => NoDangling
  BY DEF IInv, Owned, NoDangling
<1> QED
  BY Invariant, <1>1, PTL

(* DataSize reads as it was declared, for every size that fits a word.     *)
THEOREM SizesKept == Spec => []SizeKept
<1>1. IInv => SizeKept
  BY DEF IInv
<1> QED
  BY Invariant, <1>1, PTL

(* On every device, with clients that take tokens out before they free a   *)
(* block, secure memory has an owner until it is released, or a call that  *)
(* should have read or released its handle has failed.                     *)
THEOREM NothingLeaks ==
  ASSUME ~FreeWithToken
  PROVE  Spec => []NoLeak
<1>1. Init => NoLeak
  BY DEF Init, NoLeak
<1>2. IInv /\ NoLeak /\ [Next]_vars => NoLeak'
  <2> SUFFICES ASSUME IInv, NoLeak, [Next]_vars PROVE NoLeak'
    OBVIOUS
  <2> SUFFICES ASSUME NEW q \in live', q \notin client', q \notin lost'
               PROVE  \E c \in Blocks : q \in Refers(c)'
    BY DEF NoLeak
  <2>1. ASSUME q \in live, q \notin client, q \notin lost PROVE \E c \in Blocks : q \in Refers(c)
    BY <2>1 DEF NoLeak
  <2>2. \A b \in Blocks : block[b] # NULL => block[b] \in Header /\ Loaded
    BY DEF IInv, TypeOK, BlocksAfterLoad
  <2>3. ASSUME NEW b \in Blocks, NEW g \in Header, block' = [block EXCEPT ![b] = g]
        PROVE  /\ Refers(b)' = {g["OutputBuffer"]} \cap Regions
               /\ \A c \in Blocks \ {b} : Refers(c)' = Refers(c)
    BY <2>3, HeaderAssumption DEF Refers, IInv, TypeOK
  <2>4. CASE Load /\ UNCHANGED <<block, declared, live, client, lost>>
    BY <2>1, <2>4 DEF Refers
  <2>5. ASSUME NEW b \in Blocks, NEW size \in Sizes, NEW need \in BOOLEAN, AllocateDataBlock(b, size, need)
        PROVE \E c \in Blocks : q \in Refers(c)'
    <3> DEFINE h == SetField(DefaultHeader, "DataSize", size % WordLimit)
    <3>1. h \in Header
      BY Truncated, DefaultIsHeader
    <3>2. /\ AllocationGrants(b, h) \/ (block' = [block EXCEPT ![b] = h] /\ live' = live)
          /\ client' = client /\ lost' = lost /\ Refers(b) = {}
      BY <2>5 DEF AllocateDataBlock, AllocationFails, Refers
    <3> HIDE DEF h
    <3>3. PICK g \in Header : block' = [block EXCEPT ![b] = g] /\ live' \subseteq live \cup {g["OutputBuffer"]}
      <4>1. CASE block' = [block EXCEPT ![b] = h] /\ live' = live
        BY <3>1, <4>1
      <4>2. CASE AllocationGrants(b, h)
        <5>1. PICK type \in TokenType, handle \in Handles :
                block' = [block EXCEPT ![b] = WithHandle(h, type, handle)] /\ live' \subseteq live \cup {handle}
          BY <4>2 DEF AllocationGrants, TokenType, Handles
        <5>2. /\ WithHandle(h, type, handle) \in Header
              /\ WithHandle(h, type, handle)["OutputBuffer"] = handle
          BY <3>1, GrantedHeader
        <5> QED
          BY <5>1, <5>2
      <4> QED
        BY <3>2, <4>1, <4>2
    <3>4. live' \subseteq Regions
      BY <2>5, AllocateIInv DEF IInv, TypeOK
    <3> QED
      BY <2>1, <2>3, <3>2, <3>3, <3>4
  <2>6. ASSUME NEW b \in Blocks, FreeDataBlock(b) PROVE \E c \in Blocks : q \in Refers(c)'
    <3>1. /\ live' \subseteq live /\ lost \subseteq lost' /\ client' = client
          /\ block[b] # NULL /\ \A c \in Blocks \ {b} : Refers(c)' = Refers(c)
      BY <2>6 DEF FreeDataBlock, ReleaseOwned, ReleaseSecMem, ReleaseNothing, Refers, IInv, TypeOK
    <3>2. PICK c \in Blocks : q \in Refers(c)
      BY <2>1, <3>1
    <3>3. c # b
      <4> SUFFICES ASSUME q \in Refers(b) PROVE FALSE
        BY <3>2
      <4>1. q = block[b]["OutputBuffer"] /\ q \in Regions /\ q # NULL
        BY HeaderAssumption DEF Refers
      <4>2. block[b]["Type"] = PreAllocatedHandle
        BY <2>6, <4>1 DEF FreeDataBlock, HasToken, IInv, Typed
      <4>3. /\ GetFieldV2(block[b], "OutputBuffer") \subseteq {q, NULL}
            /\ GetFieldV2(block[b], "Type") = {PreAllocatedHandle}
        BY <4>1, <4>2 DEF GetFieldV2
      <4>4. ReleaseSecMem(q) \/ ReleaseNothing(block[b])
        BY <2>6, <4>1, <4>3 DEF FreeDataBlock, ReleaseOwned
      <4> QED
        BY <4>1, <4>4 DEF ReleaseSecMem, ReleaseNothing
    <3> QED
      BY <3>1, <3>2, <3>3
  <2>7. ASSUME NEW b \in Blocks, NEW field \in {"Version", "DataSize"}, NEW w \in Words, SetNumber(b, field, w)
        PROVE \E c \in Blocks : q \in Refers(c)'
    <3>1. PICK g \in {SetField(block[b], field, w), SetFieldV2(block[b], field, w)} :
            block' = [block EXCEPT ![b] = g]
      BY <2>7 DEF SetNumber
    <3>2. block[b] # NULL /\ UNCHANGED <<live, client, lost>>
      BY <2>7 DEF SetNumber
    <3>3. g \in Header /\ g["OutputBuffer"] = block[b]["OutputBuffer"]
      <4>1. field \in FieldName /\ field # "OutputBuffer" /\ field # "Type" /\ "OutputBuffer" \in FieldName
        BY DEF FieldName
      <4>2. g \in Header /\ \A e \in FieldName \ {field} : g[e] = block[b][e]
        BY <2>2, <3>1, <3>2, <4>1, Setters
      <4> QED
        BY <4>1, <4>2
    <3>4. Refers(b)' = {g["OutputBuffer"]} \cap Regions /\ \A c \in Blocks \ {b} : Refers(c)' = Refers(c)
      BY <2>3, <3>1, <3>3
    <3>5. Refers(b)' = Refers(b)
      BY <3>2, <3>3, <3>4 DEF Refers
    <3> QED
      BY <2>1, <3>2, <3>4, <3>5
  <2>8. ASSUME NEW b \in Blocks, NEW r \in Regions, SetToken(b, r)
        PROVE \E c \in Blocks : q \in Refers(c)'
    <3>1. PICK g \in SetHandle(SetField(block[b], "Type", Handle), r) : block' = [block EXCEPT ![b] = g]
      BY <2>8 DEF SetToken
    <3>2. /\ block[b] # NULL /\ block[b]["Type"] = InPlace /\ UNCHANGED <<live, lost>>
          /\ client' = client \ {r}
      BY <2>8 DEF SetToken
    <3>3. SetField(block[b], "Type", Handle) \in Header
      BY <2>2, <3>2, Setters DEF FieldName, TokenType
    <3>4. g \in Header /\ g["OutputBuffer"] = r
      BY <3>1, <3>3, Setters DEF FieldName, SetHandle, Handles
    <3>5. Refers(b) = {}
      BY <3>2 DEF IInv, Typed, InPlace, Handle, PreAllocatedHandle
    <3> QED
      BY <2>1, <2>3, <3>1, <3>2, <3>4, <3>5
  <2>9. ASSUME NEW b \in Blocks, TakeOutputBuffer(b) PROVE \E c \in Blocks : q \in Refers(c)'
    <3>1. PICK r \in ({GetField(block[b], "OutputBuffer")} \cup GetFieldV2(block[b], "OutputBuffer")) \cap Regions :
            client' = client \cup {r}
      BY <2>9 DEF TakeOutputBuffer
    <3>2. r = block[b]["OutputBuffer"] /\ block[b] # NULL /\ UNCHANGED <<live, lost>>
          /\ \A c \in Blocks \ {b} : Refers(c)' = Refers(c)
      BY <2>9, <3>1, HeaderAssumption DEF TakeOutputBuffer, GetField, GetFieldV2, Refers, IInv, TypeOK
    <3> QED
      BY <2>1, <3>1, <3>2 DEF Refers
  <2>10. ASSUME NEW r \in Regions, AllocateBuffer(r) \/ FreeBuffer(r)
         PROVE \E c \in Blocks : q \in Refers(c)'
    BY <2>1, <2>10 DEF AllocateBuffer, FreeBuffer, Refers
  <2>11. CASE UNCHANGED vars
    BY <2>1, <2>11 DEF vars, Refers
  <2> QED
    BY <2>4, <2>5, <2>6, <2>7, <2>8, <2>9, <2>10, <2>11 DEF Next
<1> QED
  BY Invariant, <1>1, <1>2, PTL DEF Spec
=============================================================================
