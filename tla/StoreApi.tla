-------------------------------- MODULE StoreApi --------------------------------
(***************************************************************************)
(* What gst_svp_ext_context_process_store_get_value and _set_value promise *)
(* (gst_svp_meta.h): a store of named values that all contexts of the      *)
(* process share.  A call takes effect at one moment between its start and *)
(* its return, or fails and leaves the store alone.                        *)
(***************************************************************************)
CONSTANTS Threads,   \* callers
          Requests,  \* the calls they make: [op, name, size, value]
          Supported, \* requests the platform has a handler for
          Failed,    \* the answer FALSE
          NULL       \* no request, no answer yet

VARIABLES store,  \* name -> value
          req,    \* thread -> the call it is in
          answer  \* thread -> the value read or set, or Failed

apiVars == <<store, req, answer>>

(* No call, and any store.                                                  *)
Init ==
  /\ req = [t \in Threads |-> NULL]
  /\ answer = [t \in Threads |-> NULL]

Begin(t, r) ==
  /\ req[t] = NULL
  /\ req' = [req EXCEPT ![t] = r]
  /\ UNCHANGED <<store, answer>>

Get(t) ==
  /\ req[t] \in Supported /\ req[t].op = "get" /\ answer[t] = NULL
  /\ answer' = [answer EXCEPT ![t] = store[req[t].name]]
  /\ UNCHANGED <<store, req>>

Set(t) ==
  /\ req[t] \in Supported /\ req[t].op = "set" /\ answer[t] = NULL
  /\ store' = [store EXCEPT ![req[t].name] = req[t].value]
  /\ answer' = [answer EXCEPT ![t] = req[t].value]
  /\ UNCHANGED req

Fail(t) ==
  /\ req[t] # NULL /\ answer[t] = NULL
  /\ answer' = [answer EXCEPT ![t] = Failed]
  /\ UNCHANGED <<store, req>>

End(t) ==
  /\ answer[t] # NULL
  /\ req' = [req EXCEPT ![t] = NULL]
  /\ answer' = [answer EXCEPT ![t] = NULL]
  /\ UNCHANGED store

Next == \E t \in Threads :
  \/ \E r \in Requests : Begin(t, r)
  \/ Get(t) \/ Set(t) \/ Fail(t) \/ End(t)

Spec == Init /\ [][Next]_apiVars
=============================================================================
