------------------------------ MODULE ProcessStore ------------------------------
(***************************************************************************)
(* The process store of gst_svp_meta.cpp: a table of name/value processors *)
(* that the device registers, and may replace, while threads look names up *)
(* in it.  The count and the pointer of the table are two plain statics:   *)
(* their stores may be made in either order, and a lookup may use the copy *)
(* it has read before in place of either.                                  *)
(*                                                                         *)
(* The handlers are the device's; each reads or writes its value at once.  *)
(* One registration is made at a time.                                     *)
(***************************************************************************)
EXTENDS Naturals, Sequences

CONSTANTS Threads,
          Names, Values,
          InitialStore, \* the values the handlers begin with
          Tables,   \* the tables the device registers
          MaxEntries, \* no table is longer
          Requests, \* the calls threads make
          Failed,   \* the answer FALSE
          NULL      \* no pointer, no request, no answer yet

Sizes == Nat
NameValuePairProcessor ==
  [name : Names, expectedValueSize : Sizes, getter : BOOLEAN, setter : BOOLEAN]

(* A request without a name stands for any null argument.                  *)
Request == [op : {"get", "set"}, name : Names \cup {NULL}, size : Sizes, value : Values]

(* A table on its way, the one it replaces, and the statics it has not     *)
(* reached.                                                                *)
Registration ==
  [count : Nat, table : Tables \cup {NULL}, before : Tables \cup {NULL},
   left : SUBSET {"count", "table"}]

ASSUME StoreAssumption ==
  /\ Tables \subseteq Seq(NameValuePairProcessor)
  /\ MaxEntries \in Nat /\ \A T \in Tables : Len(T) <= MaxEntries
  /\ Requests \subseteq Request
  /\ InitialStore \in [Names -> Values]
  /\ NULL \notin Values \cup {Failed} /\ NULL \notin Names
  /\ NULL \notin Tables /\ NULL \notin Requests /\ NULL \notin Registration

VARIABLES numProcessors, \* numContextStoreNameValuePairProcessors
          processors,    \* contextStoreNameValuePairProcessors
          arriving,      \* the call of set_context_store_..., or NULL
          store,         \* the values behind the handlers
          pc, req,       \* thread -> where it is, and in which call
          i,             \* thread -> the index of the loop
          count, table,  \* thread -> its copies of the two statics
          answer,        \* thread -> what the call returns
          met            \* thread -> the tables in force since it entered its loop

tableVars == <<numProcessors, processors, arriving>>
threadVars == <<pc, req, i, count, table, answer, met>>
vars == <<tableVars, store, threadVars>>

TypeOK ==
  /\ numProcessors \in Nat
  /\ processors \in Tables \cup {NULL}
  /\ arriving \in Registration \cup {NULL}
  /\ store \in [Names -> Values]
  /\ pc \in [Threads -> {"idle", "loop", "entry", "handler", "invalid", "missed", "return", "crashed"}]
  /\ req \in [Threads -> Requests \cup {NULL}]
  /\ i \in [Threads -> Nat]
  /\ count \in [Threads -> Nat]
  /\ table \in [Threads -> Tables \cup {NULL}]
  /\ answer \in [Threads -> Values \cup {Failed, NULL}]
  /\ met \in [Threads -> SUBSET (Tables \cup {NULL})]

(* The library is loaded, with a table or without.                         *)
Init ==
  /\ \/ numProcessors = 0 /\ processors = NULL
     \/ \E T \in Tables : T # <<>> /\ numProcessors = Len(T) /\ processors = T
  /\ arriving = NULL
  /\ store = InitialStore
  /\ pc = [t \in Threads |-> "idle"]
  /\ req = [t \in Threads |-> NULL]
  /\ i = [t \in Threads |-> 0]
  /\ count = [t \in Threads |-> 0]
  /\ table = [t \in Threads |-> NULL]
  /\ answer = [t \in Threads |-> NULL]
  /\ met = [t \in Threads |-> {}]

(* The tables a lookup may find in the statics, or the parts of which.     *)
InForce == IF arriving = NULL THEN {processors} ELSE {arriving.before, arriving.table}

Entries(T) == IF T = NULL THEN 0 ELSE Len(T)

(* Nothing goes on in a process that has crashed.                          *)
Alive == \A t \in Threads : pc[t] # "crashed"

-----------------------------------------------------------------------------
(* set_context_store_name_value_pair_processors, at any time: for the      *)
(* first table or another.                                                 *)
UnlessBothInvalid(n, T) == n # 0 \/ T # NULL \* mutant: the check with &&

ValidList(n, T) == n # 0 /\ T # NULL

SetProcessors(n, T) ==
  /\ Alive /\ arriving = NULL
  /\ ValidList(n, T)
  /\ arriving' = [count |-> n, table |-> T, before |-> processors, left |-> {"count", "table"}]
  /\ met' = [t \in Threads |-> IF met[t] = {} THEN {} ELSE met[t] \cup {T}]
  /\ UNCHANGED <<numProcessors, processors, store, pc, req, i, count, table, answer>>

Written(part) ==
  /\ Alive /\ arriving # NULL /\ part \in arriving.left
  /\ arriving' = IF arriving.left = {part} THEN NULL
                 ELSE [arriving EXCEPT !.left = @ \ {part}]

WriteCount ==
  /\ Written("count")
  /\ numProcessors' = arriving.count
  /\ UNCHANGED <<processors, store, threadVars>>

WriteTable ==
  /\ Written("table")
  /\ processors' = arriving.table
  /\ UNCHANGED <<numProcessors, store, threadVars>>

-----------------------------------------------------------------------------
(* gst_svp_ext_context_process_store_get_value and _set_value, and the     *)
(* checks of processNameValuePair.                                         *)
Call(t, r) ==
  /\ Alive /\ pc[t] = "idle"
  /\ req' = [req EXCEPT ![t] = r]
  /\ \/ /\ r.name = NULL
        /\ pc' = [pc EXCEPT ![t] = "invalid"]
        /\ UNCHANGED <<count, table, met>>
     \/ /\ r.name # NULL
        /\ pc' = [pc EXCEPT ![t] = "loop"]
        /\ count' = [count EXCEPT ![t] = numProcessors]
        /\ table' = [table EXCEPT ![t] = processors]
        /\ met' = [met EXCEPT ![t] = InForce]
  /\ UNCHANGED <<tableVars, store, i, answer>>

LoopTestRestarts(t) == \* mutant: the lookup starts again when the count has changed
  /\ pc[t] = "loop"
  /\ \E n \in {count[t], numProcessors}, T \in {table[t], processors} :
       /\ count' = [count EXCEPT ![t] = n]
       /\ table' = [table EXCEPT ![t] = T]
       /\ i' = [i EXCEPT ![t] = IF n = count[t] THEN @ ELSE 0]
       /\ pc' = [pc EXCEPT ![t] = IF i'[t] < n THEN "entry" ELSE "missed"]
  /\ UNCHANGED <<tableVars, store, req, answer, met>>

LoopTestGivesUp(t) == \* mutant: the lookup ends when the table has changed
  /\ pc[t] = "loop"
  /\ \E n \in {count[t], numProcessors}, T \in {table[t], processors} :
       /\ count' = [count EXCEPT ![t] = n]
       /\ table' = [table EXCEPT ![t] = T]
       /\ pc' = [pc EXCEPT ![t] = IF i[t] < n /\ T = table[t] THEN "entry" ELSE "missed"]
  /\ UNCHANGED <<tableVars, store, req, i, answer, met>>

(* The condition of the loop, and the table loaded for its body.           *)
LoopTest(t) ==
  /\ pc[t] = "loop"
  /\ \E n \in {count[t], numProcessors}, T \in {table[t], processors} :
       /\ count' = [count EXCEPT ![t] = n]
       /\ table' = [table EXCEPT ![t] = T]
       /\ pc' = [pc EXCEPT ![t] = IF i[t] < n THEN "entry" ELSE "missed"]
  /\ UNCHANGED <<tableVars, store, req, i, answer, met>>

(* The loop is left, and its variables are of no more use.                 *)
Leave(t, place) ==
  /\ pc' = [pc EXCEPT ![t] = place]
  /\ i' = [i EXCEPT ![t] = 0]
  /\ count' = [count EXCEPT ![t] = 0]
  /\ table' = [table EXCEPT ![t] = NULL]
  /\ met' = [met EXCEPT ![t] = {}]

Return(t, result) ==
  /\ answer' = [answer EXCEPT ![t] = result]
  /\ Leave(t, "return")

Handler(processor, op) == IF op = "get" THEN processor.getter ELSE processor.setter

AcceptsAnySize(processor, r) == Handler(processor, r.op) \* mutant: no size check

Accepts(processor, r) == processor.expectedValueSize = r.size /\ Handler(processor, r.op)

Stay(t) == UNCHANGED i \* mutant: the loop does not advance

Advance(t) == i' = [i EXCEPT ![t] = @ + 1]

(* What the loop takes for an entry.  Behind a table are other entries the *)
(* device has, or nothing it may read.                                     *)
InTable(t) == i[t] < Entries(table[t])

SomeEntry == UNION {{T[k] : k \in 1 .. Len(T)} : T \in Tables}

EntryRead(t) ==
  IF InTable(t) THEN {table[t][i[t] + 1]} ELSE IF table[t] = NULL THEN {} ELSE SomeEntry

(* The null pointer, or what lies behind the table, cannot be read.        *)
StrayRead(t) ==
  /\ pc[t] = "entry" /\ ~InTable(t)
  /\ Leave(t, "crashed")
  /\ UNCHANGED <<tableVars, store, req, answer>>

(* The body of the loop for one entry.                                     *)
Entry(t) ==
  /\ pc[t] = "entry"
  /\ \E processor \in EntryRead(t) :
         \/ /\ processor.name # req[t].name
            /\ Advance(t)
            /\ pc' = [pc EXCEPT ![t] = "loop"]
            /\ UNCHANGED <<count, table, answer, met>>
         \/ /\ processor.name = req[t].name
            /\ ~Accepts(processor, req[t])
            /\ Return(t, Failed)
         \/ /\ processor.name = req[t].name
            /\ Accepts(processor, req[t])
            /\ Leave(t, "handler")
            /\ UNCHANGED answer
  /\ UNCHANGED <<tableVars, store, req>>

(* The handler reads or writes the value, or fails.                        *)
CallHandler(t) ==
  /\ pc[t] = "handler"
  /\ \/ /\ req[t].op = "get"
        /\ Return(t, store[req[t].name])
        /\ UNCHANGED store
     \/ /\ req[t].op = "set"
        /\ store' = [store EXCEPT ![req[t].name] = req[t].value]
        /\ Return(t, req[t].value)
     \/ Return(t, Failed) /\ UNCHANGED store
  /\ UNCHANGED <<tableVars, req>>

NotFoundFallsThrough(t) == \* mutant: no return statement, an old value is returned
  /\ pc[t] \in {"invalid", "missed"}
  /\ Return(t, i[t])
  /\ UNCHANGED <<tableVars, store, req>>

(* A null argument, or no processor for the name.                          *)
NotFound(t) ==
  /\ pc[t] \in {"invalid", "missed"}
  /\ Return(t, Failed)
  /\ UNCHANGED <<tableVars, store, req>>

End(t) ==
  /\ pc[t] = "return"
  /\ pc' = [pc EXCEPT ![t] = "idle"]
  /\ req' = [req EXCEPT ![t] = NULL]
  /\ answer' = [answer EXCEPT ![t] = NULL]
  /\ UNCHANGED <<tableVars, store, i, count, table, met>>

Continue(t) ==
  /\ Alive
  /\ LoopTest(t) \/ Entry(t) \/ StrayRead(t) \/ CallHandler(t) \/ NotFound(t) \/ End(t)

(* A device gives the count of its table, none, or no table.               *)
Next ==
  \/ \E T \in Tables :
       SetProcessors(Len(T), T) \/ SetProcessors(0, T) \/ SetProcessors(Len(T), NULL)
  \/ WriteCount \/ WriteTable
  \/ \E t \in Threads : Continue(t) \/ \E r \in Requests : Call(t, r)

(* A thread that has called goes on: it waits for nobody, and the handlers *)
(* return.                                                                 *)
Spec == Init /\ [][Next]_vars /\ \A t \in Threads : WF_vars(Continue(t))

-----------------------------------------------------------------------------
(* Whatever mixture of counts and pointers a lookup works with, what it    *)
(* reads is an entry of its table, unless tables of different lengths were *)
(* in force during its loop; before the first registration that is none.   *)
LookupInBounds ==
  \A t \in Threads : pc[t] = "entry" =>
    InTable(t) \/ \E T, U \in met[t] : Entries(T) # Entries(U)

(* A call returns, TRUE or FALSE: no registration makes it crash.          *)
CallsReturn == Alive

(* A lookup does not miss a name that every table in force during its call *)
(* has at the same place, however their lengths differ and whichever of    *)
(* them it has the count of.                                               *)
KnownNameFound ==
  \A t \in Threads : pc[t] = "missed" =>
    ~\E k \in 1 .. MaxEntries : \A T \in met[t] :
       k <= Entries(T) /\ T[k].name = req[t].name

(* A call ends, however often the table is replaced by a longer one.       *)
LookupEnds == \A t \in Threads : pc[t] # "idle" ~> pc[t] = "idle" \/ ~Alive

(* At most so many steps separate a thread from the end of its call.       *)
StepsLeft(t) ==
  CASE pc[t] \in {"idle", "crashed"} -> 0
    [] pc[t] = "return" -> 1
    [] pc[t] \in {"handler", "invalid", "missed"} -> 2
    [] pc[t] = "entry" -> 2 * (MaxEntries - i[t]) + 2
    [] pc[t] = "loop" -> 2 * (MaxEntries - i[t]) + 3

(* A call takes no more steps than the longest table has it take, though   *)
(* its bound is another table's between any two steps.                     *)
LookupProgresses ==
  [][\A t \in Threads : Continue(t) => StepsLeft(t)' \in 0 .. StepsLeft(t) - 1]_vars

(* The calls are those of a shared store: each reads or writes it once, of *)
(* the size and in the direction a processor supports, or fails.           *)
SupportedRequests ==
  {r \in Requests : \E T \in Tables : \E k \in 1 .. Len(T) :
     /\ T[k].name = r.name /\ T[k].expectedValueSize = r.size
     /\ IF r.op = "get" THEN T[k].getter ELSE T[k].setter}

Api == INSTANCE StoreApi WITH Supported <- SupportedRequests

ImplementsStore == Api!Spec
=============================================================================
