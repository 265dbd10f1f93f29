-------------------------- MODULE ProcessStore_proofs --------------------------
(***************************************************************************)
(* Proofs about the process store, for any number of threads, any requests *)
(* and any tables, the first of which may come while lookups run.          *)
(***************************************************************************)
EXTENDS ProcessStore, TLAPS

InLookup(t) == pc[t] \in {"loop", "entry", "handler", "missed"}

InLoop(t) == pc[t] \in {"loop", "entry", "missed"}

(* Lookups are of names, whatever the tables.                              *)
Named ==
  \A t \in Threads :
    /\ (pc[t] = "idle") <=> (req[t] = NULL)
    /\ InLookup(t) => req[t].name # NULL

BaseInv == TypeOK /\ Named

(* Each static is that of the table that arrives or of the one before it.  *)
Arriving ==
  /\ arriving.table \in Tables /\ arriving.count = Len(arriving.table)
  /\ arriving.left # {}
  /\ numProcessors =
       Entries(IF "count" \in arriving.left THEN arriving.before ELSE arriving.table)
  /\ processors = IF "table" \in arriving.left THEN arriving.before ELSE arriving.table

Statics ==
  IF arriving = NULL THEN numProcessors = Entries(processors) ELSE Arriving

(* A table does not have the name of the request at this place.            *)
Differs(T, k, r) == ~(k <= Entries(T) /\ T[k].name = r.name)

(* A lookup works with copies of tables it has met, and for every place it *)
(* has been past one of them has another name or no entry there.           *)
Passed(t) == \A k \in 1 .. i[t] : \E T \in met[t] : Differs(T, k, req[t])

Looking(t) ==
  InLoop(t) =>
    /\ InForce \subseteq met[t]
    /\ table[t] \in met[t] /\ \E T \in met[t] : count[t] = Entries(T)
    /\ Passed(t)

(* What else holds where the thread is.                                    *)
Phase(t) ==
  /\ (pc[t] = "return") <=> (answer[t] # NULL)
  /\ ~InLoop(t) => i[t] = 0 /\ met[t] = {}
  /\ pc[t] = "loop" => i[t] <= MaxEntries
  /\ pc[t] = "entry" => i[t] < count[t]
  /\ pc[t] = "handler" => req[t] \in SupportedRequests
  /\ pc[t] = "missed" => i[t] >= count[t]

IInv == BaseInv /\ Statics /\ \A t \in Threads : Looking(t) /\ Phase(t)

(* The entries of a table are processors.                                  *)
LEMMA TableTyped ==
  ASSUME NEW T \in Tables
  PROVE  Len(T) \in Nat /\ \A k \in 1 .. Len(T) : T[k] \in NameValuePairProcessor
  BY StoreAssumption

(* No table, the null pointer included, is longer than MaxEntries.         *)
LEMMA EntriesTyped ==
  ASSUME NEW T \in Tables \cup {NULL}
  PROVE  Entries(T) \in Nat /\ Entries(T) <= MaxEntries
  BY StoreAssumption, TableTyped DEF Entries

(* What a supported request names is in the store.                         *)
LEMMA SupportedTyped ==
  ASSUME NEW r \in SupportedRequests
  PROVE  r \in Requests /\ r.name \in Names /\ r.value \in Values
<1>1. PICK T \in Tables : \E k \in 1 .. Len(T) : T[k].name = r.name
  BY DEF SupportedRequests
<1>2. r.name \in Names
  BY <1>1, TableTyped DEF NameValuePairProcessor
<1> QED
  BY <1>2, StoreAssumption DEF SupportedRequests, Request

(* Whatever a loop takes for an entry is an entry of some table.           *)
LEMMA EntryOfTable ==
  ASSUME TypeOK, NEW t \in Threads, NEW processor \in EntryRead(t)
  PROVE  \E T \in Tables : \E k \in 1 .. Len(T) : processor = T[k]
<1>1. CASE InTable(t)
  <2>1. table[t] \in Tables /\ i[t] \in Nat /\ i[t] < Len(table[t])
    BY <1>1 DEF InTable, Entries, TypeOK
  <2>2. i[t] + 1 \in 1 .. Len(table[t]) /\ processor = table[t][i[t] + 1]
    BY <1>1, <2>1, TableTyped DEF EntryRead
  <2> QED
    BY <2>1, <2>2
<1>2. CASE ~InTable(t)
  <2>1. processor \in SomeEntry
    BY <1>2 DEF EntryRead
  <2> QED
    BY <2>1 DEF SomeEntry
<1> QED
  BY <1>1, <1>2

(* The statics are those of tables in force.                               *)
LEMMA StaticsInForce ==
  ASSUME TypeOK, Statics
  PROVE  /\ processors \in InForce /\ InForce \subseteq Tables \cup {NULL}
         /\ \E T \in InForce : numProcessors = Entries(T)
<1>1. CASE arriving = NULL
  BY <1>1 DEF Statics, InForce, TypeOK
<1>2. CASE arriving # NULL
  <2>1. arriving \in Registration
    BY <1>2 DEF TypeOK
  <2> QED
    BY <1>2, <2>1 DEF Statics, Arriving, InForce, Registration
<1> QED
  BY <1>1, <1>2

-----------------------------------------------------------------------------
(* No thread is in a call.                                                 *)
LEMMA InitIInv == Init => IInv
<1> SUFFICES ASSUME Init PROVE IInv
  OBVIOUS
<1>1. Statics /\ numProcessors \in Nat /\ processors \in Tables \cup {NULL}
  <2>1. CASE processors = NULL
    BY <2>1, StoreAssumption DEF Init, Statics, Entries
  <2>2. CASE processors # NULL
    BY <2>2, TableTyped DEF Init, Statics, Entries
  <2> QED
    BY <2>1, <2>2
<1>2. TypeOK /\ Named
  BY <1>1, StoreAssumption DEF Init, TypeOK, Named, InLookup
<1>3. \A t \in Threads : Looking(t) /\ Phase(t)
  BY DEF Init, Looking, Phase, InLoop
<1> QED
  BY <1>1, <1>2, <1>3 DEF IInv, BaseInv

(* Types are kept whatever the device registers and whenever.              *)
LEMMA NextBase == BaseInv /\ [Next]_vars => BaseInv'
<1> SUFFICES ASSUME BaseInv, [Next]_vars PROVE BaseInv'
  OBVIOUS
<1> USE DEF BaseInv
<1>1. ASSUME NEW n \in Nat, NEW T \in Tables \cup {NULL}, SetProcessors(n, T) PROVE BaseInv'
  <2>1. arriving' \in Registration
    BY <1>1 DEF SetProcessors, Registration, TypeOK
  <2>2. met' \in [Threads -> SUBSET (Tables \cup {NULL})]
    BY <1>1 DEF SetProcessors, TypeOK
  <2> QED
    BY <1>1, <2>1, <2>2 DEF SetProcessors, TypeOK, Named, InLookup
<1>2. CASE WriteCount \/ WriteTable
  <2>1. arriving \in Registration /\ arriving' \in Registration \cup {NULL}
    BY <1>2 DEF WriteCount, WriteTable, Written, TypeOK, Registration
  <2>2. numProcessors' \in Nat /\ processors' \in Tables \cup {NULL}
    BY <1>2, <2>1 DEF WriteCount, WriteTable, TypeOK, Registration
  <2> QED
    BY <1>2, <2>1, <2>2 DEF WriteCount, WriteTable, TypeOK, Named, InLookup, threadVars
<1>3. ASSUME NEW t \in Threads, NEW r \in Requests, Call(t, r) PROVE BaseInv'
  <2>1. r # NULL
    BY StoreAssumption
  <2>2. InForce \subseteq Tables \cup {NULL}
    BY DEF InForce, TypeOK, Registration
  <2>3. TypeOK'
    BY <1>3, <2>2 DEF Call, TypeOK, tableVars
  <2>4. Named'
    BY <1>3, <2>1 DEF Call, TypeOK, Named, InLookup
  <2> QED
    BY <2>3, <2>4
<1>4. ASSUME NEW t \in Threads, LoopTest(t) PROVE BaseInv'
  BY <1>4 DEF LoopTest, TypeOK, Named, InLookup, tableVars
<1>5. ASSUME NEW t \in Threads, NEW place \in {"handler", "return", "crashed"},
             Leave(t, place), pc[t] # "idle", place = "handler" => InLookup(t),
             UNCHANGED <<tableVars, req>>,
             store' \in [Names -> Values], answer' \in [Threads -> Values \cup {Failed, NULL}]
      PROVE  BaseInv'
  <2>1. TypeOK'
    BY <1>5 DEF Leave, TypeOK, tableVars
  <2>2. Named'
    BY <1>5 DEF Leave, TypeOK, Named, InLookup
  <2> QED
    BY <2>1, <2>2
<1>6. ASSUME NEW t \in Threads, Entry(t) \/ StrayRead(t) PROVE BaseInv'
  <2>1. CASE Advance(t) /\ pc[t] = "entry" /\ pc' = [pc EXCEPT ![t] = "loop"]
             /\ UNCHANGED <<tableVars, store, req, count, table, answer, met>>
    BY <2>1 DEF Advance, TypeOK, Named, InLookup, tableVars
  <2>2. CASE Return(t, Failed) /\ pc[t] = "entry" /\ UNCHANGED <<tableVars, store, req>>
    BY <1>5, <2>2 DEF Return, TypeOK
  <2>3. CASE (Leave(t, "handler") \/ Leave(t, "crashed")) /\ pc[t] = "entry"
             /\ UNCHANGED <<tableVars, store, req, answer>>
    <3>1. InLookup(t) /\ store' \in [Names -> Values] /\ answer' \in [Threads -> Values \cup {Failed, NULL}]
      BY <2>3 DEF TypeOK, InLookup
    <3> QED
      BY <1>5, <2>3, <3>1
  <2> QED
    BY <1>6, <2>1, <2>2, <2>3 DEF Entry, StrayRead
<1>7. ASSUME NEW t \in Threads, CallHandler(t) \/ NotFound(t) PROVE BaseInv'
  <2>1. UNCHANGED <<tableVars, req>> /\ Leave(t, "return") /\ pc[t] # "idle"
    BY <1>7 DEF CallHandler, NotFound, Return
  <2>2. answer' \in [Threads -> Values \cup {Failed, NULL}] /\ store' \in [Names -> Values]
    <3>1. CASE CallHandler(t)
      <4>1. req[t] \in Request /\ req[t].name # NULL
        BY <3>1, StoreAssumption DEF CallHandler, TypeOK, Named, InLookup
      <4>2. req[t].name \in Names /\ req[t].value \in Values
        BY <4>1 DEF Request
      <4> QED
        BY <3>1, <4>2 DEF CallHandler, Return, TypeOK
    <3>2. CASE NotFound(t)
      BY <3>2 DEF NotFound, Return, TypeOK
    <3> QED
      BY <1>7, <3>1, <3>2
  <2> QED
    BY <1>5, <2>1, <2>2
<1>8. ASSUME NEW t \in Threads, End(t) PROVE BaseInv'
  BY <1>8 DEF End, TypeOK, Named, InLookup, tableVars
<1>9. CASE UNCHANGED vars
  BY <1>9 DEF vars, tableVars, threadVars, TypeOK, Named, InLookup
<1> QED
  BY <1>1, <1>2, <1>3, <1>4, <1>6, <1>7, <1>8, <1>9, TableTyped DEF Next, Continue

-----------------------------------------------------------------------------
(* A table on its way fits; what a thread has met stays met.               *)
LEMMA RegisterIInv ==
  ASSUME IInv, BaseInv',
         \/ \E T \in Tables :
              SetProcessors(Len(T), T) \/ SetProcessors(0, T) \/ SetProcessors(Len(T), NULL)
         \/ WriteCount \/ WriteTable
  PROVE  IInv'
<1>1. UNCHANGED <<pc, req, i, count, table, answer>>
  BY DEF SetProcessors, WriteCount, WriteTable, threadVars
<1>2. TypeOK /\ Statics
  BY DEF IInv, BaseInv
<1> DEFINE Kept(t) ==
      /\ met[t] \subseteq met'[t] /\ (met[t] = {} => met'[t] = {})
      /\ met[t] # {} /\ InForce \subseteq met[t] => InForce' \subseteq met'[t]
<1>3. Statics' /\ \A t \in Threads : Kept(t)
  <2>1. ASSUME NEW T \in Tables, SetProcessors(Len(T), T) PROVE Statics' /\ \A t \in Threads : Kept(t)
    <3>1. arriving' # NULL
      BY <2>1, StoreAssumption DEF SetProcessors, Registration, TypeOK, IInv, BaseInv
    <3>2. Statics'
      BY <1>2, <2>1, <3>1 DEF SetProcessors, Statics, Arriving
    <3>3. InForce = {processors} /\ InForce' = {processors, T}
      BY <2>1, <3>1 DEF SetProcessors, InForce
    <3> QED
      BY <2>1, <3>2, <3>3 DEF SetProcessors
  <2>2. ASSUME NEW part \in {"count", "table"}, Written(part),
               numProcessors' = IF part = "count" THEN arriving.count ELSE numProcessors,
               processors' = IF part = "table" THEN arriving.table ELSE processors,
               met' = met
        PROVE  Statics' /\ \A t \in Threads : Kept(t)
    <3>1. arriving \in Registration /\ Arriving
      BY <1>2, <2>2 DEF Written, TypeOK, Statics
    <3>2. arriving.table # NULL /\ Entries(arriving.table) = arriving.count
      BY <3>1, StoreAssumption DEF Arriving, Entries
    <3>3. CASE arriving.left = {part}
      <4>1. arriving' = NULL /\ processors' = arriving.table
        BY <2>2, <3>1, <3>3 DEF Written, Arriving
      <4>2. numProcessors' = arriving.count
        BY <2>2, <3>1, <3>2, <3>3 DEF Written, Arriving
      <4>3. Statics' /\ InForce' = {arriving.table}
        BY <3>2, <4>1, <4>2 DEF Statics, InForce, Entries
      <4>4. InForce = {arriving.before, arriving.table}
        BY <2>2 DEF Written, InForce
      <4> QED
        BY <2>2, <4>3, <4>4
    <3>4. CASE arriving.left # {part}
      <4>1. /\ arriving' = [arriving EXCEPT !.left = @ \ {part}]
            /\ arriving.left \ {part} # {}
        BY <2>2, <3>1, <3>4 DEF Written
      <4>2. /\ arriving'.count = arriving.count /\ arriving'.table = arriving.table
            /\ arriving'.before = arriving.before /\ arriving'.left = arriving.left \ {part}
            /\ arriving' \in Registration
        BY <3>1, <4>1 DEF Registration
      <4>3. arriving' # NULL /\ arriving # NULL
        BY <2>2, <4>2, StoreAssumption DEF Written
      <4>4. Arriving'
        BY <2>2, <3>1, <3>2, <4>1, <4>2 DEF Arriving, Entries
      <4>5. Statics' /\ InForce' = InForce
        BY <4>2, <4>3, <4>4 DEF Statics, InForce
      <4> QED
        BY <2>2, <4>5
    <3> QED
      BY <3>3, <3>4
  <2>3. CASE WriteCount
    BY <2>2, <2>3 DEF WriteCount, threadVars
  <2>4. CASE WriteTable
    BY <2>2, <2>4 DEF WriteTable, threadVars
  <2> QED
    BY <2>1, <2>3, <2>4 DEF SetProcessors, ValidList
<1>4. ASSUME NEW t \in Threads PROVE Looking(t)' /\ Phase(t)'
  <2>1. Phase(t)'
    BY <1>1, <1>3, <1>4 DEF IInv, Phase, InLoop, SupportedRequests
  <2>2. Looking(t)'
    <3> SUFFICES ASSUME InLoop(t)
                 PROVE  /\ InForce' \subseteq met'[t]
                        /\ table[t] \in met'[t] /\ \E T \in met'[t] : count[t] = Entries(T)
                        /\ \A k \in 1 .. i[t] : \E T \in met'[t] : Differs(T, k, req[t])
      BY <1>1 DEF Looking, InLoop, Passed, Entries, Differs
    <3>1. /\ InForce \subseteq met[t] /\ met[t] \subseteq met'[t] /\ table[t] \in met[t]
          /\ \E T \in met[t] : count[t] = Entries(T)
          /\ Passed(t)
      BY <1>3, <1>4 DEF IInv, Looking
    <3>2. InForce' \subseteq met'[t]
      BY <1>3, <1>4, <3>1
    <3> QED
      BY <3>1, <3>2 DEF Passed
  <2> QED
    BY <2>1, <2>2
<1> QED
  BY <1>3, <1>4 DEF IInv

(* A step of one thread leaves to show what holds of that thread.          *)
LEMMA OneThread ==
  ASSUME IInv, BaseInv', UNCHANGED tableVars, NEW t \in Threads,
         \A u \in Threads \ {t} :
           /\ pc'[u] = pc[u] /\ req'[u] = req[u] /\ i'[u] = i[u] /\ count'[u] = count[u]
           /\ table'[u] = table[u] /\ answer'[u] = answer[u] /\ met'[u] = met[u],
         Looking(t)', Phase(t)'
  PROVE  IInv'
<1>1. Statics' /\ InForce' = InForce
  BY DEF IInv, Statics, Arriving, InForce, Entries, tableVars
<1>2. ASSUME NEW u \in Threads \ {t} PROVE Looking(u)' /\ Phase(u)'
  BY <1>1, <1>2 DEF IInv, Looking, Passed, Differs, Entries, Phase, InLoop, SupportedRequests
<1> QED
  BY <1>1, <1>2 DEF IInv

(* A thread that leaves its loop has nothing to show of it.                *)
LEMMA LeaveIInv ==
  ASSUME IInv, BaseInv', NEW t \in Threads, NEW place \in {"handler", "return", "crashed"},
         Leave(t, place), UNCHANGED <<tableVars, req>>,
         \A u \in Threads \ {t} : answer'[u] = answer[u],
         (place = "return") <=> (answer'[t] # NULL),
         place = "handler" => req[t] \in SupportedRequests
  PROVE  IInv'
<1>1. /\ pc'[t] = place /\ i'[t] = 0 /\ met'[t] = {}
      /\ \A u \in Threads \ {t} :
           /\ pc'[u] = pc[u] /\ i'[u] = i[u] /\ count'[u] = count[u]
           /\ table'[u] = table[u] /\ met'[u] = met[u]
  BY DEF Leave, IInv, BaseInv, TypeOK
<1>2. Looking(t)' /\ Phase(t)'
  BY <1>1 DEF Looking, Phase, InLoop, SupportedRequests
<1> QED
  BY <1>1, <1>2, OneThread

(* A call begins: its copies are those of the statics.                     *)
LEMMA CallIInv ==
  ASSUME IInv, BaseInv', NEW t \in Threads, NEW r \in Requests, Call(t, r)
  PROVE  IInv'
<1>1. /\ TypeOK /\ Statics /\ i[t] = 0 /\ answer[t] = NULL /\ met[t] = {}
      /\ UNCHANGED <<i, answer, tableVars>> /\ InForce' = InForce
  BY DEF Call, IInv, BaseInv, Phase, InLoop, InForce, tableVars
<1>2. \A u \in Threads \ {t} :
        /\ pc'[u] = pc[u] /\ req'[u] = req[u] /\ i'[u] = i[u] /\ count'[u] = count[u]
        /\ table'[u] = table[u] /\ answer'[u] = answer[u] /\ met'[u] = met[u]
  BY <1>1 DEF Call, TypeOK
<1>3. CASE r.name = NULL
  <2>1. pc'[t] = "invalid" /\ met'[t] = {}
    BY <1>1, <1>3 DEF Call, TypeOK
  <2>2. Looking(t)' /\ Phase(t)'
    BY <1>1, <2>1 DEF Looking, Phase, InLoop
  <2> QED
    BY <1>1, <1>2, <2>2, OneThread
<1>4. CASE r.name # NULL
  <2>1. /\ pc'[t] = "loop" /\ met'[t] = InForce
        /\ count'[t] = numProcessors /\ table'[t] = processors
    BY <1>1, <1>4 DEF Call, TypeOK
  <2>2. Phase(t)'
    BY <1>1, <2>1, StoreAssumption DEF Phase, InLoop
  <2>3. Looking(t)'
    <3>1. \E T \in InForce : numProcessors = Entries(T)
      BY <1>1, StaticsInForce
    <3>2. processors \in InForce
      BY <1>1, StaticsInForce
    <3> QED
      BY <1>1, <2>1, <3>1, <3>2 DEF Looking, Passed, InLoop, Entries
  <2> QED
    BY <1>1, <1>2, <2>2, <2>3, OneThread
<1> QED
  BY <1>3, <1>4

(* The condition of the loop, with old or new copies of the statics.       *)
LEMMA LoopTestIInv ==
  ASSUME IInv, BaseInv', NEW t \in Threads, LoopTest(t)
  PROVE  IInv'
<1>1. PICK n \in {count[t], numProcessors}, T \in {table[t], processors} :
        /\ count' = [count EXCEPT ![t] = n]
        /\ table' = [table EXCEPT ![t] = T]
        /\ pc' = [pc EXCEPT ![t] = IF i[t] < n THEN "entry" ELSE "missed"]
  BY DEF LoopTest
<1>2. /\ pc[t] = "loop" /\ UNCHANGED <<tableVars, store, req, i, answer, met>>
      /\ TypeOK /\ Statics /\ Looking(t) /\ InLoop(t) /\ InForce' = InForce
  BY DEF LoopTest, IInv, BaseInv, InLoop, InForce, tableVars
<1>3. /\ pc'[t] = IF i[t] < n THEN "entry" ELSE "missed"
      /\ count'[t] = n /\ table'[t] = T /\ i[t] \in Nat /\ n \in Nat
      /\ answer'[t] = NULL /\ i'[t] = i[t]
  BY <1>1, <1>2 DEF IInv, TypeOK, Phase
<1>4. Looking(t)'
  <2>1. T \in met[t] /\ \E U \in met[t] : n = Entries(U)
    BY <1>2, StaticsInForce DEF Looking
  <2> QED
    BY <1>2, <1>3, <2>1 DEF Looking, Passed, Differs, Entries
<1>5. Phase(t)'
  BY <1>3 DEF Phase, InLoop
<1> QED
  BY <1>1, <1>2, <1>4, <1>5, OneThread DEF TypeOK

(* The body of the loop: the entry says either that the name is another, or*)
(* whether the request is supported.                                       *)
LEMMA EntryIInv ==
  ASSUME IInv, BaseInv', NEW t \in Threads, Entry(t)
  PROVE  IInv'
<1>1. /\ pc[t] = "entry" /\ UNCHANGED <<tableVars, store, req>> /\ TypeOK
      /\ req[t] \in Requests /\ answer[t] = NULL /\ Looking(t) /\ InLoop(t)
  BY DEF Entry, IInv, BaseInv, TypeOK, Named, Phase, InLoop
<1>2. /\ i[t] \in Nat /\ count[t] \in Nat /\ table[t] \in Tables \cup {NULL}
      /\ i[t] < count[t] /\ count[t] <= MaxEntries
  <2>1. i[t] \in Nat /\ count[t] \in Nat /\ table[t] \in Tables \cup {NULL} /\ i[t] < count[t]
    BY <1>1 DEF IInv, TypeOK, Phase
  <2>2. PICK T \in met[t] : count[t] = Entries(T)
    BY <1>1 DEF Looking
  <2> QED
    BY <1>1, <2>1, <2>2, EntriesTyped DEF TypeOK
<1>3. PICK processor \in EntryRead(t) :
         \/ /\ processor.name # req[t].name /\ Advance(t)
            /\ pc' = [pc EXCEPT ![t] = "loop"] /\ UNCHANGED <<count, table, answer, met>>
         \/ Return(t, Failed)
         \/ /\ processor.name = req[t].name /\ Accepts(processor, req[t])
            /\ Leave(t, "handler") /\ UNCHANGED answer
  BY DEF Entry
<1>4. CASE /\ processor.name # req[t].name /\ Advance(t)
           /\ pc' = [pc EXCEPT ![t] = "loop"] /\ UNCHANGED <<count, table, answer, met>>
  <2>1. i'[t] = i[t] + 1 /\ pc'[t] = "loop" /\ InForce' = InForce
    BY <1>1, <1>4 DEF TypeOK, Advance, InForce, tableVars
  <2>2. Looking(t)'
    <3>1. Differs(table[t], i[t] + 1, req[t])
      BY <1>2, <1>4, StoreAssumption, EntriesTyped DEF Differs, EntryRead, InTable
    <3>2. ASSUME NEW k \in 1 .. i[t] + 1 PROVE \E T \in met[t] : Differs(T, k, req[t])
      <4>1. CASE k = i[t] + 1
        BY <1>1, <3>1, <4>1 DEF Looking
      <4>2. CASE k # i[t] + 1
        BY <1>1, <1>2, <4>2 DEF Looking, Passed
      <4> QED
        BY <4>1, <4>2
    <3>3. Passed(t)'
      BY <1>1, <1>4, <2>1, <3>2 DEF Passed, Differs, Entries
    <3> QED
      BY <1>1, <1>4, <2>1, <3>3 DEF Looking, Entries
  <2>3. Phase(t)'
    BY <1>1, <1>2, <1>4, <2>1, StoreAssumption DEF Phase, InLoop
  <2> QED
    BY <1>1, <1>4, <2>2, <2>3, OneThread DEF TypeOK, Advance
<1>5. CASE Return(t, Failed)
  <2>1. answer'[t] = Failed /\ \A u \in Threads \ {t} : answer'[u] = answer[u]
    BY <1>1, <1>5 DEF Return, TypeOK
  <2> QED
    BY <1>1, <1>5, <2>1, LeaveIInv, StoreAssumption DEF Return
<1>6. CASE /\ processor.name = req[t].name /\ Accepts(processor, req[t])
           /\ Leave(t, "handler") /\ UNCHANGED answer
  <2>1. PICK T \in Tables : \E k \in 1 .. Len(T) : processor = T[k]
    BY <1>1, EntryOfTable
  <2>2. req[t] \in SupportedRequests
    BY <1>1, <1>6, <2>1 DEF SupportedRequests, Accepts, Handler
  <2> QED
    BY <1>1, <1>6, <2>2, LeaveIInv
<1> QED
  BY <1>3, <1>4, <1>5, <1>6

(* The handler, and the ways out.                                          *)
LEMMA EndIInv ==
  ASSUME IInv, BaseInv', NEW t \in Threads,
         StrayRead(t) \/ CallHandler(t) \/ NotFound(t) \/ End(t)
  PROVE  IInv'
<1>1. CASE CallHandler(t) \/ NotFound(t)
  <2>1. UNCHANGED <<tableVars, req>> /\ Leave(t, "return")
    BY <1>1 DEF CallHandler, NotFound, Return
  <2>2. PICK v \in Values \cup {Failed} : answer' = [answer EXCEPT ![t] = v]
    <3>1. CASE CallHandler(t)
      <4>1. req[t].name \in Names /\ req[t].value \in Values
        BY <3>1, SupportedTyped DEF CallHandler, IInv, Phase
      <4> QED
        BY <3>1, <4>1 DEF CallHandler, Return, IInv, BaseInv, TypeOK
    <3>2. CASE NotFound(t)
      BY <3>2 DEF NotFound, Return
    <3> QED
      BY <1>1, <3>1, <3>2
  <2>3. answer'[t] # NULL /\ \A u \in Threads \ {t} : answer'[u] = answer[u]
    BY <2>2, StoreAssumption DEF IInv, BaseInv, TypeOK
  <2> QED
    BY <2>1, <2>3, LeaveIInv
<1>2. CASE StrayRead(t)
  BY <1>2, LeaveIInv DEF StrayRead, IInv, Phase
<1>3. CASE End(t)
  <2>1. Looking(t)' /\ Phase(t)'
    BY <1>3 DEF End, IInv, BaseInv, TypeOK, Looking, InLoop, Phase
  <2> QED
    BY <1>3, <2>1, OneThread DEF End, IInv, BaseInv, TypeOK
<1> QED
  BY <1>1, <1>2, <1>3

(* Every step preserves the inductive invariant.                           *)
LEMMA NextIInv == IInv /\ [Next]_vars => IInv'
<1> SUFFICES ASSUME IInv, [Next]_vars PROVE IInv'
  OBVIOUS
<1>0. BaseInv'
  BY NextBase DEF IInv
<1>1. ASSUME NEW T \in Tables,
             SetProcessors(Len(T), T) \/ SetProcessors(0, T) \/ SetProcessors(Len(T), NULL)
      PROVE  IInv'
  BY <1>0, <1>1, RegisterIInv
<1>2. CASE WriteCount \/ WriteTable
  BY <1>0, <1>2, RegisterIInv
<1>3. ASSUME NEW t \in Threads, Continue(t) \/ \E r \in Requests : Call(t, r) PROVE IInv'
  BY <1>0, <1>3, LoopTestIInv, EntryIInv, EndIInv, CallIInv DEF Continue
<1>4. CASE UNCHANGED vars
  BY <1>0, <1>4
  DEF vars, tableVars, threadVars, IInv, Statics, Arriving, InForce, Entries, Looking, Passed,
      Differs, Phase, InLoop, SupportedRequests
<1> QED
  BY <1>1, <1>2, <1>3, <1>4 DEF Next

(* The inductive invariant holds in every reachable state.                 *)
THEOREM Invariant == Spec => []IInv
  BY InitIInv, NextIInv, PTL DEF Spec

-----------------------------------------------------------------------------
(* Every variable keeps its type, whichever tables are registered.         *)
THEOREM TypeCorrect == Spec => []TypeOK
<1>1. IInv => TypeOK
  BY DEF IInv, BaseInv
<1> QED
  BY Invariant, <1>1, PTL

(* A lookup stays inside the table it walks, whatever mixture of counts    *)
(* and pointers it works with, unless tables of different lengths were in  *)
(* force while it ran; the null pointer is a table of no entries.          *)
THEOREM InBounds == Spec => []LookupInBounds
<1>1. IInv => LookupInBounds
  <2> SUFFICES ASSUME IInv, NEW t \in Threads, pc[t] = "entry",
                      \A T, U \in met[t] : Entries(T) = Entries(U)
               PROVE  InTable(t)
    BY DEF LookupInBounds
  <2>1. table[t] \in met[t] /\ i[t] < count[t] /\ \E T \in met[t] : count[t] = Entries(T)
    BY DEF IInv, Looking, Phase, InLoop
  <2> QED
    BY <2>1 DEF InTable
<1> QED
  BY Invariant, <1>1, PTL

(* A name that has one place in all the tables in force during a lookup is *)
(* found there, whatever else differs between the tables.                  *)
THEOREM NamesFound == Spec => []KnownNameFound
<1>1. IInv => KnownNameFound
  <2> SUFFICES ASSUME IInv, NEW t \in Threads, pc[t] = "missed", NEW k \in 1 .. MaxEntries,
                      \A T \in met[t] : k <= Entries(T) /\ T[k].name = req[t].name
               PROVE  FALSE
    BY DEF KnownNameFound
  <2>1. i[t] >= count[t] /\ i[t] \in Nat /\ Passed(t) /\ \E T \in met[t] : count[t] = Entries(T)
    BY DEF IInv, BaseInv, TypeOK, Looking, Phase, InLoop
  <2>2. k <= count[t] /\ count[t] \in Nat /\ MaxEntries \in Nat
    BY <2>1, StoreAssumption DEF IInv, BaseInv, TypeOK
  <2>3. k \in 1 .. i[t]
    BY <2>1, <2>2
  <2> QED
    BY <2>1, <2>3 DEF Passed, Differs
<1> QED
  BY Invariant, <1>1, PTL

-----------------------------------------------------------------------------
(* StepsLeft counts down, though the bound of the loop changes under it.   *)
LEMMA Countdown ==
  ASSUME IInv, NEW t \in Threads, Continue(t)
  PROVE  StepsLeft(t)' \in 0 .. StepsLeft(t) - 1
<1>0. TypeOK /\ Looking(t) /\ Phase(t) /\ MaxEntries \in Nat /\ i[t] \in Nat
  BY StoreAssumption DEF IInv, BaseInv, TypeOK
<1>1. pc[t] = "entry" => i[t] < MaxEntries
  <2> SUFFICES ASSUME pc[t] = "entry" PROVE i[t] < MaxEntries
    OBVIOUS
  <2>1. PICK T \in met[t] : count[t] = Entries(T)
    BY <1>0 DEF Looking, InLoop
  <2>2. count[t] \in Nat /\ count[t] <= MaxEntries /\ i[t] < count[t]
    BY <1>0, <2>1, EntriesTyped DEF TypeOK, Phase
  <2> QED
    BY <1>0, <2>2
<1>2. pc[t] = "loop" => i[t] <= MaxEntries
  BY <1>0 DEF Phase
<1>3. /\ pc[t] = "loop" => StepsLeft(t) = 2 * (MaxEntries - i[t]) + 3
      /\ pc[t] = "entry" => StepsLeft(t) = 2 * (MaxEntries - i[t]) + 2
      /\ pc[t] \in {"handler", "invalid", "missed"} => StepsLeft(t) = 2
      /\ pc[t] = "return" => StepsLeft(t) = 1
  BY DEF StepsLeft
<1>4. /\ pc'[t] = "loop" => StepsLeft(t)' = 2 * (MaxEntries - i'[t]) + 3
      /\ pc'[t] = "entry" => StepsLeft(t)' = 2 * (MaxEntries - i'[t]) + 2
      /\ pc'[t] \in {"handler", "missed"} => StepsLeft(t)' = 2
      /\ pc'[t] = "return" => StepsLeft(t)' = 1
      /\ pc'[t] \in {"idle", "crashed"} => StepsLeft(t)' = 0
  BY DEF StepsLeft
<1>5. CASE LoopTest(t)
  <2>1. pc[t] = "loop" /\ pc'[t] \in {"entry", "missed"} /\ i' = i
    BY <1>0, <1>5 DEF LoopTest, TypeOK
  <2> QED
    BY <1>0, <1>2, <1>3, <1>4, <2>1
<1>6. CASE Entry(t) \/ StrayRead(t)
  <2>1. /\ pc[t] = "entry" /\ pc'[t] \in {"loop", "return", "handler", "crashed"}
        /\ pc'[t] = "loop" => i'[t] = i[t] + 1
    BY <1>0, <1>6 DEF Entry, StrayRead, Return, Leave, Advance, TypeOK
  <2> QED
    BY <1>0, <1>1, <1>3, <1>4, <2>1
<1>7. CASE CallHandler(t) \/ NotFound(t)
  <2>1. pc[t] \in {"handler", "invalid", "missed"} /\ pc'[t] = "return"
    BY <1>0, <1>7 DEF CallHandler, NotFound, Return, Leave, TypeOK
  <2> QED
    BY <1>3, <1>4, <2>1
<1>8. CASE End(t)
  <2>1. pc[t] = "return" /\ pc'[t] = "idle"
    BY <1>0, <1>8 DEF End, TypeOK
  <2> QED
    BY <1>3, <1>4, <2>1
<1> QED
  BY <1>5, <1>6, <1>7, <1>8 DEF Continue

(* A call takes a number of steps that the longest table bounds, however   *)
(* often shorter and longer tables replace each other meanwhile.           *)
THEOREM Progresses == Spec => LookupProgresses
<1> DEFINE Counts == \A t \in Threads : Continue(t) => StepsLeft(t)' \in 0 .. StepsLeft(t) - 1
<1>1. IInv /\ [Next]_vars => Counts
  BY Countdown
<1> QED
  BY Invariant, <1>1, PTL DEF Spec, LookupProgresses

-----------------------------------------------------------------------------
(* A step of the lookup is a step of the abstract store or changes nothing *)
(* it has: it answers once, in the step that reads or writes the store.    *)
LEMMA Maps == IInv /\ [Next]_vars => [Api!Next]_Api!apiVars
<1> SUFFICES ASSUME IInv, [Next]_vars PROVE Api!Next \/ UNCHANGED <<store, req, answer>>
  BY DEF Api!apiVars
<1>1. ASSUME NEW t \in Threads, NEW r \in Requests, Call(t, r) PROVE Api!Begin(t, r)
  BY <1>1 DEF Call, Api!Begin, IInv, BaseInv, Named
<1>2. ASSUME NEW t \in Threads, CallHandler(t)
      PROVE  Api!Get(t) \/ Api!Set(t) \/ Api!Fail(t)
  <2>1. req[t] \in SupportedRequests /\ answer[t] = NULL /\ req[t] # NULL
    BY <1>2 DEF CallHandler, IInv, BaseInv, Named, Phase
  <2> QED
    BY <1>2, <2>1 DEF CallHandler, Return, Api!Get, Api!Set, Api!Fail
<1>3. ASSUME NEW t \in Threads, NotFound(t) PROVE Api!Fail(t)
  BY <1>3 DEF NotFound, Return, Api!Fail, IInv, BaseInv, Named, Phase
<1>4. ASSUME NEW t \in Threads, Entry(t) PROVE Api!Fail(t) \/ UNCHANGED <<store, req, answer>>
  BY <1>4 DEF Entry, Return, Api!Fail, IInv, BaseInv, Named, Phase
<1>5. ASSUME NEW t \in Threads, LoopTest(t) \/ StrayRead(t) PROVE UNCHANGED <<store, req, answer>>
  BY <1>5 DEF LoopTest, StrayRead
<1>6. ASSUME NEW t \in Threads, End(t) PROVE Api!End(t)
  BY <1>6 DEF End, Api!End, IInv, BaseInv, Named, Phase
<1>7. ASSUME NEW n, NEW T, SetProcessors(n, T) \/ WriteCount \/ WriteTable
      PROVE  UNCHANGED <<store, req, answer>>
  BY <1>7 DEF SetProcessors, WriteCount, WriteTable, threadVars
<1>8. CASE UNCHANGED vars
  BY <1>8 DEF vars, threadVars
<1>9. ASSUME NEW t \in Threads, Continue(t) PROVE Api!Next \/ UNCHANGED <<store, req, answer>>
  BY <1>2, <1>3, <1>4, <1>5, <1>6, <1>9 DEF Continue, Api!Next
<1>10. ASSUME NEW t \in Threads, NEW r \in Requests, Call(t, r) PROVE Api!Next
  BY <1>1, <1>10 DEF Api!Next
<1> QED
  BY <1>7, <1>8, <1>9, <1>10 DEF Next

(* The interleaved lookups, with tables replaced meanwhile, implement the  *)
(* store in which a call takes effect at one moment: an entry from behind  *)
(* a table can only be another of the device's entries.                    *)
THEOREM Refinement == Spec => ImplementsStore
<1>1. Init => Api!Init
  BY DEF Init, Api!Init
<1> QED
  BY Invariant, Maps, <1>1, PTL DEF Spec, ImplementsStore, Api!Spec
=============================================================================
