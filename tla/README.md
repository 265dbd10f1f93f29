# Verification of gst-svp-ext

`gst-svp-ext` is the Secure Video Path extension of the RDK: a library between
GStreamer elements and the SoC's secure memory, and an element, `svppay`, built on it.
This directory holds TLA+ models of its state-keeping parts, TLC configurations that
check them, and proofs of the main properties for every size. Source references are to
`src/`; `secapi` stands for `gst_svp_secure_buffers_secapi.cpp`, `payload` for
`plugins/gst-svp-payload.cpp`, `meta` for `gst_svp_meta.cpp`, `header` for
`gst_svp_header.cpp`, `lock` for `gst_svp_scopedlock.cpp` and `.h`. The repository has no
tests and no design documents; what the code is meant to do is said in comments of the
headers and by its own assertions.

## 1. The system

```
 application / decryptor                      svppay (payload)
        |  svp_allocate_secure_buffers              |  state changes, caps queries, buffers
        |  svp_release_secure_buffers               |  process_store_set_value
        v                                           v
   dispatch table (meta, gst_svp_meta_private.h): defaults < SecAPI 2/3 < device
        |                 |                         |
        v                 v                         v
   secure buffers      data blocks, SVP header   process store (meta)
   (secapi)            (header)
        |                 |
        +---- token ------+--> OutputBuffer field --> consumer (sink, decoder)
   scoped lock (lock): one mutex for the process, used by the platform libraries
```

| component | state it keeps | operations | what must hold |
|---|---|---|---|
| SecAPI 3 secure buffers (`secapi` 158-285) | none of its own: the caller's IN/OUT pointers, the token, the platform's heap | allocate the pair (OUT first, copy the input), release with a token | all or nothing; no use of freed memory; one owner per region; nothing lost |
| SecAPI 2 secure buffers (`secapi` 36-156) | same | allocate (always returns 1), release, free one buffer | same, told by the pointers because the result says nothing |
| svppay (`payload`) | `svpCtx`, `decrypt_to_host_enabled`, the cached `decryptToHost` | init, state changes, caps queries, prepare output, transform | contexts acquired once and freed once; one decision per buffer although the mode is read three times; the store told when needed |
| SVP header and data blocks (`header`) | the four header fields of each block in flight | allocate, set and get fields 32 bits wide or through a pointer, free | freeing a block releases what the block owns, nothing else; a size reads as it was declared |
| scoped lock (`lock`) | `_lock`, `_bMutexInit`, `_bMutexAcquired` and `nCount` on the stack | `SCOPED_LOCK`, `SCOPED_TRY_LOCK` in two builds, the destructor | mutual exclusion, balanced nesting, timed attempts end and never run unguarded |
| process store (`meta` 482-562, 583-597) | a table of name/value processors for the whole process: a count and a pointer | set, get, register | a lookup stays inside its table unless its length changes meanwhile, and finds what is there; a call is one read or write, or fails |
| dispatch table and defaults (`meta`, `gst_svp_meta_private.h`, `gst_svp_secure_buffers_default.cpp`) | a table of functions | constructor, device registration, calls | every call through it reaches the function registered last, or a default that fails |
| platform wrappers, performance wrappers, logging, encrypted-data adapter | none that a sequence of calls could spoil | forwards, timing, formatting, inline helpers | - |

The hard behaviours: every platform call may fail, between any two others; threads
allocate and release concurrently against one heap; the OUT buffer changes owner when its
token is copied, but its pointer lives on for a moment; a caps query, on any thread,
overwrites the mode the streaming thread reads three times for one buffer; the context is
freed and reset in two steps, whatever the platform says to it; the store is shared by all
elements while each element keeps its own idea of it, and the table behind it is two plain
statics that a device may write while threads walk it, the first time included; what a device registers decides what freeing a block can release;
the lock is initialised without synchronisation by whoever comes first, and acquired by
polling. `PROJECT.json` lists each at its line.

## 2. Modules

| module | models | how it corresponds to the code |
|---|---|---|
| `SecureBufferApi` | the promise of `svp_allocate_secure_buffers` / `svp_release_secure_buffers` | abstract: an allocation is one step to all buffers asked for; a buffer leaves by going downstream in a token or by being given back |
| `SecureHeap` | threads, the heap, tokens: what SecAPI 2 and 3 share | a buffer pointer *is* the region it names (the `Sec_OpaqueBufferHandle` and the region have the same life), `pc[s]` names the platform call that comes next, so that other threads run between any two calls |
| `SecureBuffersV3`, `SecureBuffersV2` | the two implementations | one action per stretch of code up to the next platform call; failure branches are disjuncts |
| `SvpPayload` | svppay and its value in the store | `state`, `ctx`, `liveCtx`: `svpPayloadChangeState` in the steps another thread can see (free, then reset), `refused` the contexts the platform did not take back; `flag`, `cached`, `store`: the mode; `pc`, `secure`, `out`: one buffer through `svpPayloadPrepareOutputBuffer` and `svpPayloadTransform`, cut at each read of the mode and around the call of the store; `asked` is the copy of the mode whose address the call passes |
| `DispatchTable` | `s_gst_svp_context` over the loading of the library | `gst_svp_init` is the sequence of the constructor's calls, `SlotOf` says which slot a setter writes; `impl[s]` is what slot `s` points to, `done` and `made` count the calls of the constructor and of the device; one action for a default, one for a setter the device calls, one for the return of `gst_svp_init_device_context`; `CallResults(s)` is what a call through the slot may return |
| `SvpHeader` | data blocks, on any device | EXTENDS `DispatchTable`; `block[b]` is the header, a function of the field names; `SetField`/`GetField` and `SetFieldV2`/`GetFieldV2` are the two families of accessors; `declared[b]` is the size stated last; `Undefined` is the bytes behind the default header that `gst_svp_write_header` copies along, or what is left of a handle longer than a word |
| `StoreApi` | the promise of the process store | abstract: a call reads or writes one value at one moment, or fails |
| `ProcessStore` | `processNameValuePair` and the registration of its table | one action per read of the statics, per entry and per handler; `arriving` is the table on its way, whose count and pointer reach the statics in either order; `count[t]`, `table[t]` are the copies a compiler may keep over a round of the loop; a read outside the table crashes the process (`crashed`) or finds another entry of the device; `met[t]` is a history: the tables in force since `t` entered its loop |
| `RecursiveLock` | the promise of the scoped lock | abstract: `held[t]` guarded scopes, taken only while nobody else has any |
| `ScopedMutex` | both builds of the lock | one action per access to the mutex or to `_bMutexInit`; `build` is chosen in Init; `acquired[t]` are the open scopes whose `_bMutexAcquired` is TRUE |
| `MC*` | the sets given to TLC | model values, symmetry |
| `*_proofs` | theorems | section 5; `SecureHeap_proofs` is shared by the two SecAPI proofs |

`SecureBuffersV2` and `SecureBuffersV3` EXTEND `SecureHeap` and are shown to implement
`SecureBufferApi` (`ImplementsApi`): `held` is what a thread has between the return of the
allocation and the end of the release, `downstream` is the delivered tokens. `ScopedMutex`
implements `RecursiveLock` (`ImplementsLock`), `held[t]` being the number of scopes of `t`
that acquired the mutex. `ProcessStore` implements `StoreApi` (`ImplementsStore`) variable
by variable; seen from the other side, what the elements of `SvpPayload` do with the store
are calls of the same `StoreApi` (`CallsStore`), a call, one moment at which it takes effect
or fails, and a return being three steps in both. `SvpHeader` composes blocks with the dispatch table: whether an allocation can
be granted, a handle read out and memory released is asked of the table.

The parts outside the repository are written from how the code uses them: the heap grants
a region nobody has and may refuse; `free` and `to_token` fail if the constant `Faults`
says so, at most `MaxLost` times, and `lost` remembers the region; the consumer redeems a
token once; the clients of data blocks set and take the OutputBuffer as the comments of
`gst_svp_header.h` ask them to, through the 32-bit accessors only if a handle is one word
(`SetHandle`); a device calls the setters it is described by, in their order; it registers one table of the
process store at a time, whose handlers read or write one value each, or fail; a recursive
mutex counts.

## 3. Runs

| run | question | bounds |
|---|---|---|
| `buffers_v3` | memory safety, exclusive owners, all-or-nothing, no leak, `ImplementsApi` | 2 threads, 3 regions, any SecAPI call failing anywhere, up to 3 lost regions |
| `buffers_v2` | the same for SecAPI 2, `InputCopied` instead of all-or-nothing | 2 threads, 4 regions, 1 lost; the failure of `buffers_v2_double_free` excluded |
| `payload` | context ownership, outcomes explained, the store known to its last writer, `CallsStore` | 2 elements, 2 contexts |
| `header` | dispatch ready, releases defined, one owner, no dangling reference, no leak, sizes kept | 2 blocks, 3 regions, 6 sequences of setters a device calls (none; release and extraction with the allocator, or not; one slot twice; null pointers) with tokens of one word and longer, sizes 0 to 2 where a word holds 0 and 1 (`WordLimit` = 2) |
| `store` | lookups in bounds, known names found, `ImplementsStore`, `LookupProgresses`, `LookupEnds` | 2 threads, a table of 2 names and one of 1 that supports less, loaded with either or none, 4 requests (get, set, refused for its size, null name), 2 values, any number of registrations |
| `lock` | balance, guarded timed scopes, `ImplementsLock`, `ConstructorEnds`, `TimedEnds` | 3 threads, nesting 2, waits of ever, 0 and 2 attempts, both builds, one first user |
| `buffers_v3_orphan` | violates `NoLeak` | a caller of release without `pDataOut` |
| `buffers_v2_double_free` | violates `FreesOwnLiveBuffer` | IN refused after OUT was granted |
| `payload_assert` | violates `PassthroughKeepsBuffer` | 1 element |
| `header_free_token` | violates `NoLeak` | clients free a block that holds a token |
| `store_race` | violates `CallsReturn` | as `store` |
| `lock_race` | violates `AcquiredIsHeld` | 2 first users |

Why these bounds are enough to be worth checking: two threads are what a freed and
regranted region needs, and three regions are fewer than two full pairs, so that memory
runs out in mid-allocation. SecAPI 2 needs the fourth one because there a thread waits for
IN memory (the failure is excluded) and one region may be lost. Two elements are what
stale knowledge of a shared store needs, and two contexts let both have one or race for
the last. Two blocks let one take over from a client what the other gave up, and
three regions leave one for the client meanwhile; a size equal to `WordLimit` is the first
that does not fit. The devices of `header` register nothing, the allocator without what
reads out or releases a handle, with it, over it with a null pointer, and a slot twice, so
that `CallResults` is met with every outcome. In `store` two threads let one set a value
between the lookup and the read of the other, two tables of different lengths and the null
pointer before them give every kind of mixture of count and pointer, and two names are the
least a loop can step past; any number of registrations may follow one another. Three
threads let one hold the lock, one wait and one poll; nesting two is the least that shows
a count off by one. All the properties of the passing runs are also proved for every size
(section 5), except `TimedEnds` and `LookupEnds`.

The only bounds on the models themselves are `MaxLost` (platform failures that cost a
region), `MaxDepth` (nesting) and `WordLimit` (2^32 in the code: `Sizes` goes one beyond
what a word holds). The proofs are for every value of them.

Deadlock is checked in every run but `store` and `store_race`, where a process that has
crashed goes no further: none of the other protocols stops.

### What the passing properties say

- `NoDangling`, `Exclusive`, `NoLeak` relate the pointers of all threads, the delivered
  tokens and the heap. A missing reset on one error path breaks them only after another
  thread was granted the region.
- `AllOrNothing` and `InputCopied`: what a caller may conclude from the result of an
  allocation (SecAPI 3) or from the pointers (SecAPI 2).
- `ImplementsApi`: callers see transactions, although an implementation holds and gives
  back memory in the middle of one.
- `ContextOwnership`: a context is one element's until it is freed, the streaming thread
  only uses one its element owns, and the contexts that outlive their element are exactly
  those whose release the platform refused (`payload` 298 does not look at the result). It
  rests on the order of the two cases of `svpPayloadChangeState` and on the streaming
  thread stopping before READY. It says nothing of `get_property` and of caps queries, which
  may use the pointer at any time (section 6).
- `OutcomeExplained`: clear data goes on unchanged only if the mode was on at some moment
  of that buffer, is transformed only if it was off at some moment, and is refused, or
  overwritten in place, only if the mode changed under it.
- `WriterKnowsStore`: skipping the set of an unchanged value is right for the last writer,
  also after sets that failed and with sets of other elements in the middle of one's own.
- `CallsStore`: `svpPayloadUpdateDecryptToHost` hands the store one value, which no caps
  query changes between the comparison with the cache, the set and the update of the cache:
  it has a copy of the mode, not the field.
- `ReleasesDefined`, `OneOwner`, `NoDangling`, `NoLeak` of data blocks: what
  `gst_svp_free_data_block` releases is allocated, is the block's own, is not in a client's
  hands or another header, and nothing else is left behind, although
  clients change Type and OutputBuffer and an allocation may have failed unnoticed.
  `NoLeak` excuses (`lost`) what a call through the table that failed should have read out
  of the block or released: `gst_svp_free_data_block` frees the block all the same.
- `SizeKept`: neither family of accessors disturbs DataSize by setting another field, for
  every size below 2^32; a `gsize` beyond that is cut, as `header` 211 does.
- `DispatchReady`: on every device, one that registers nothing included, a call through the
  table reaches what the device registered last for the slot, or the default if it
  registered nothing; only a null pointer that the device registered is called.
- `LookupInBounds`: a lookup may meet the count of one table with the pointer of another, or
  keep an old copy of either, and still reads an entry of its table, as long as the tables
  in force during its loop are of one length. With another length, or no table before, it
  may not: that is `store_race`.
- `KnownNameFound`: a lookup does not miss a name that all the tables it may meet have at
  one place, also when one of them ends behind it.
- `ImplementsStore`: seen from its callers a call of the store happens at one moment and
  leaves nothing behind when it fails. (What lies behind a table is taken to be another of
  the device's entries, if the process survives reading it.)
- `LookupProgresses`, `LookupEnds`: a call ends though tables of other lengths change the
  bound of its loop under it, for ever if need be: each of its steps leaves fewer to take
  (`StepsLeft`, counted from the longest table).
- `LockBalanced`, `TryBodyGuarded`, `ImplementsLock`: no acquisition is lost or left behind
  over nesting, giving up and the double locking of the libc macro.
- `ConstructorEnds`, `TimedEnds`: every step inside a constructor or macro leaves fewer to
  take, also when the initialisation fails or is redone by others; a timed one therefore ends.

### Where the code and what is said of it disagree

The six violation runs are such places (`findings` in `PROJECT.json` quotes each line).

1. `buffers_v3_orphan`, `secapi` 275: release with `pDataOut == NULL` frees the local
   storage of the token and abandons the secure memory; `gst_svp_meta.h:121` says
   `svp_buffer_destroy_token` is for that.
2. `buffers_v2_double_free`, `secapi` 63: OUT is freed where IN failed and once more at
   105, possibly after it became another thread's.
3. `payload_assert`, `payload` 152: a caps query in mid-buffer makes
   `g_return_val_if_fail (inbuf == outbuf)` fail.
4. `store_race`, `meta` 593: the count of a table is written before its pointer, and a
   lookup in between reads through the null pointer or beyond the older table, where
   `gst_svp_meta.h:139` says that a call returns, TRUE or FALSE. Devices that register in
   `gst_svp_init_device_context`, before any thread can call, and never again, do not meet
   it; the function can be called at any time.
5. `header_free_token`, `header` 259: a block of Type Handle is freed with its OutputBuffer
   left alone, where `gst_svp_header.h:83` says any resources left in it are freed too.
6. `lock_race`, `lock` 60: two first users both initialise the mutex, the second after the
   first has taken it. Nothing in the repository calls `SCOPED_LOCK`; its users are the
   platform libraries, so whether two of them can be first at the same time is not to be
   seen here. `Starters` is the set of threads that may be.

## 4. Fairness

`ProcessStore` states `WF_vars(Continue(t))` for each thread: a thread inside a call of the
store takes its next step. It waits for nobody there, the code has no lock, and a handler
of the device is assumed to return. Registrations are under no fairness: one that has
written the count only, for ever, is a behaviour too. A process that has crashed is
under none either: `LookupEnds` says that a call ends unless the process does.

`ScopedMutex` states `WF_vars(Proceed(t))` for each thread, which is that a
thread that can take its next step inside a constructor or macro takes it. The system's
scheduler gives that to any running thread. `Proceed` leaves out `Enter` (nobody has to
use the lock), `Leave` (the code in a scope may run for ever) and `Lock` (a mutex handed
to others for ever starves a waiter, and nothing in pthreads excludes it), so `TimedEnds`
holds even next to a thread that keeps the lock for good. `Relock` is in `Proceed`: the
thread holds the recursive mutex already, so that it cannot block. All other specifications
are safety specifications; their calls return when the platform's calls do, about which
the code knows nothing.

## 5. Proofs

Each `_proofs` module finds an inductive invariant `IInv`, proves `Init => IInv` and
`IInv /\ [Next]_vars => IInv'` with one step per action, and derives the properties. Where
only a part of `IInv` needs a hypothesis, the part that holds without is `BaseInv`, proved
inductive by itself, so that each theorem is stated under what it needs and no more.

| module | proved | assuming |
|---|---|---|
| `SecureBuffersV3_proofs` | `TypeOK`, `NoDangling`, `Exclusive`, `AllOrNothing`, `NoLeak`, `ImplementsApi` | `HeapAssumption`; for `NoLeak` that callers take the token (`DataOut \subseteq {TRUE}`) |
| `SecureBuffersV2_proofs` | `TypeOK`, `NoLeak` | `HeapAssumption` |
| | `NoDangling`, `Exclusive`, `InputCopied`, `FreesOwnLiveBuffer`, `ImplementsApi` | `HeapAssumption`, `~InMallocMayFail` |
| `SecureBufferApi_proofs` | no region is shared in the abstract interface | nothing |
| `SvpHeader_proofs` | `TypeOK`, `DispatchReady`, `ReleasesDefined`, `OneOwner`, `NoDangling`, `SizeKept`, `NoLeak` | `DeviceAssumption`, `HeaderAssumption`; for `NoLeak` `~FreeWithToken` |
| `ProcessStore_proofs` | `TypeOK`, `LookupInBounds`, `KnownNameFound`, `ImplementsStore`, `LookupProgresses` | `StoreAssumption` |
| `SvpPayload_proofs` | `TypeOK`, `ContextOwnership`, `OutcomeExplained`, `WriterKnowsStore`, `CallsStore` | `PayloadAssumption` |
| | the set that is skipped changes nothing (`SkippedSetIsIdle`) | and one element in the process |
| | `PassthroughKeepsBuffer` | and a behaviour in which no caps query changes the mode of an element while it handles a buffer (`[][ModeSteady]_vars`) |
| `ScopedMutex_proofs` | `TypeOK`, `TryBodyGuarded`, `ConstructorEnds` | `LockAssumption` |
| | `LockBalanced`, `AcquiredIsHeld`, `ImplementsLock`, mutual exclusion (`Guard!OneInside`) | and `OneStarter` |

Five of the violation runs drop one of these hypotheses each, and show that the theorems
need it; the theorems show that nothing else leads to what those runs find. For the sixth,
`store_race`, the hypothesis is in the property: `LookupInBounds` has a lookup read outside
its table only if the tables in force during its loop differ in length.

What the invariants add to the properties, and why it is needed:

- *SecAPI.* `Control` says at which places of a call each pointer is NULL (SecAPI 2 frees
  OUT in `discard_out`, and no double free follows only because OUT is NULL wherever IN
  failed); `TokenOfOut` that the token stands for the OUT buffer from `svp_buffer_to_token`
  to its copy, so that delivering it moves the region from one owner to the other;
  `NamedOnce` that a region has one name, so that a free leaves nobody else with it.
  `NoLeak` is proved beside the invariant, through `Tracked` or directly, because it
  depends on the callers. For the refinement, `SecureHeap_proofs` shows that a step hides
  from callers (`Invisible`), or takes one region from one of them (`Leaves`), or returns.
- *svppay.* `Threads` says that a buffer is handled only in PAUSED and a context freed
  only outside; `ModesMetBy` what the preparation and the decision have seen of the mode,
  which is what explains a buffer whose output was prepared under the other mode. `AskedBy`
  says that the element keeps its copy of the mode from the call of the store to the return,
  and that after a success the store holds that copy until somebody else sets it; with it
  each action maps to a step of `StoreApi` or to none.
- *Data blocks.* `Filled` says of each slot what the calls made so far have left in it: its
  default if the constructor has set it (`DeviceLast` has the device come after all
  defaults), and the last of the device's registrations (`RegisteredBy`); from it
  `DispatchReady` and what a call may return follow. `BlocksAfterLoad` says that blocks come
  after it. `Owned` (a region that is referred to is allocated) and `Typed` (a block that
  refers to memory says so in its Type) carry the ownership. The lemma `OneBlock` states
  once what an action on one block has to show for the invariant; `Setters` and
  `GrantedHeader` what the accessors do to a header.
- *Process store.* `Statics`: each static is that of the table that arrives or of the one
  before it, as the writes that are left say. `Looking`: the copies of a lookup are those of
  tables it has met, and for every place it has been past one of these has another name or
  no entry there. Nothing is asked of the tables but that none is longer than `MaxEntries`.
  The values of a store are behind the device's handlers, so that a new table changes none.
- *Lock.* `Nested` numbers the open scopes, so that the destructor of the innermost one
  changes the count by the one its scope has; `Uninitialised` says that until the mutex is
  initialised only its first user has been near it: this is what a second starter breaks. Mutual exclusion is
  proved of `RecursiveLock` and carried over by the refinement.

Only model-checked: `TimedEnds` and `LookupEnds`; liveness under fairness is out of the
provers' reach. Their safety halves are proved: `ConstructorEnds` and `LookupProgresses` say
that every step of such a call makes a number smaller that starts at a bound (the longest
table, the timeout) and cannot go below zero. What is left to TLC is that a thread inside a
call always has a step to take. Of the theorems, `Held` (`AcquiredIsHeld`), `NoDoubleFree`
(`FreesOwnLiveBuffer`) and `SteadyModeKeepsCheck` state properties that
no passing run has, because they are those of violation runs under the hypothesis that
the run drops, and `OneElementSkipsRight` what `WriterKnowsStore` comes to with one element; the others state the properties of the passing runs, or the shape of the
abstract ones.

## 6. What is not modelled

- `malloc` and `svp_buffer_alloc_token` returning NULL: the code dereferences the result,
  there is no behaviour to check. The `sa_svp_buffer` made over the IN region at
  `secapi` 231 holds no secure memory of its own.
- The addresses of the heap, so fragmentation: the reason the code gives for allocating
  OUT before IN (`secapi` 202).
- `svpPayloadTransformInPlace`: `svp_payload_init` sets `in_place` to FALSE, and
  GstBaseTransform never calls it. What the caps become, and their reference counts.
- Two races of svppay with nothing to order them: `get_property` and the caps query both
  use `svpCtx` on any thread while READY to NULL frees it (`payload` 124, 250).
- The byte layout of the header, so `gst_svp_has_header` and what skips a header by its
  GUID; a header written over an existing one; the accessors called without a block.
- The arguments of the calls through the table. Two threads that register tables of the
  process store at once; a set of the store whose handler writes its value in several steps;
  bytes behind a table that are no entry and yet readable.
- `pthread_mutex_lock` failing at its maximal recursion count; `usleep` and time itself: a
  timeout is a number of attempts.
- The way of a token from the release of the secure buffers through a data block to a
  consumer as one module. The code that writes a token into a block and the code that takes
  it out are elements outside this repository: such a module would consist of clients made
  up for it. `SvpHeader` has a client who does either at any time, `SecureHeap` a consumer
  who redeems a token at any time; any real pairing of the two is among them.
- The performance wrappers: each times one forwarded call. Forwards to vendor functions,
  the inline helpers of the encrypted-data adapter, formatting, `dlopen` at load time.

## 7. Plan

Done: the secure buffers in both implementations with their abstract interface, svppay and
the process store on the two sides of one abstract interface, data blocks on the dispatch
table, the lock with its abstract specification, each with its theorems.

Left, in this order:

1. The length check that is missing at `secapi` 125 (`svp_token_size()` against
   `nDataOutMax`) and the space `DebugBinaryData` computes in unsigned arithmetic, as
   operators with lemmas, if they can be stated without the caller's memory.
2. A heap with addresses, if it stays small: OUT before IN against IN before OUT.
