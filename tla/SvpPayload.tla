------------------------------ MODULE SvpPayload ------------------------------
(***************************************************************************)
(* The svppay element: its SVP context over state changes, its             *)
(* decrypt-to-host mode, and the handling of one buffer.                   *)
(*                                                                         *)
(* Three kinds of threads meet in an element: the application, which       *)
(* changes the state; the streaming thread, which pushes buffers while the *)
(* element is in PAUSED or PLAYING; and whoever sends a caps query, at any *)
(* time.  The mode is a plain field of the element that every caps query   *)
(* overwrites and the streaming thread reads three times for one buffer.   *)
(* Elements share the process store of gst_svp_meta.cpp, which they call   *)
(* as StoreApi describes.                                                  *)
(*                                                                         *)
(* The element sets in_place to FALSE when it is made, so that             *)
(* GstBaseTransform never takes the in-place branches.                     *)
(***************************************************************************)
CONSTANTS Elements,  \* svppay elements of the process
          Contexts,  \* SVP contexts of the platform library
          Failed,    \* the answer FALSE of the process store
          NULL

(* The call of gst_svp_ext_context_process_store_set_value.                *)
SetRequest(decryptToHost) ==
  [op |-> "set", name |-> "decryptToHost", size |-> 4, value |-> decryptToHost]

SetRequests == {SetRequest(v) : v \in BOOLEAN}

ASSUME PayloadAssumption ==
  /\ NULL \notin Elements \cup Contexts \cup BOOLEAN
  /\ NULL \notin SetRequests
  /\ Failed \notin BOOLEAN \cup {NULL}

VARIABLES state,     \* element -> GstState; PAUSED stands for PLAYING too
          change,    \* element -> what is left of READY->NULL
          ctx,       \* element -> priv->svpCtx
          liveCtx,   \* contexts the library gave out and did not take back
          refused,   \* those of them it refused to take back
          flag,      \* element -> decrypt_to_host_enabled
          cached,    \* element -> priv->decryptToHost, NULL until it is set
          store,     \* "decryptToHost" in the process store
          writer,    \* the element that set it last (history)
          pc,        \* element -> where its streaming thread is
          secure,    \* element -> the input buffer is in secure memory
          out,       \* element -> the output buffer: the input or a copy
          asked,     \* element -> the mode the store is being told, or NULL
          seen       \* element -> values of the mode during the buffer (history)

lifecycle == <<state, change, ctx, liveCtx, refused>>
mode == <<cached, store, writer>>
buffer == <<secure, out, seen>>
vars == <<lifecycle, flag, mode, pc, buffer, asked>>

(* The places of the streaming thread between two buffers, and where it    *)
(* has returned from a buffer, which are what became of it.                *)
Ended == {"passed", "refused", "transformed", "failed"}
Places == {"idle", "prepared", "asking", "told", "denied", "decide", "transform"} \cup Ended
Handling(e) == pc[e] \notin {"idle"} \cup Ended

TypeOK ==
  /\ state \in [Elements -> {"NULL", "READY", "PAUSED"}]
  /\ change \in [Elements -> {"none", "free", "clear"}]
  /\ ctx \in [Elements -> Contexts \cup {NULL}]
  /\ liveCtx \subseteq Contexts
  /\ refused \subseteq Contexts
  /\ flag \in [Elements -> BOOLEAN]
  /\ cached \in [Elements -> BOOLEAN \cup {NULL}]
  /\ store \in BOOLEAN \cup {NULL}
  /\ writer \in Elements \cup {NULL}
  /\ pc \in [Elements -> Places]
  /\ secure \in [Elements -> BOOLEAN]
  /\ out \in [Elements -> {"same", "copy"}]
  /\ asked \in [Elements -> BOOLEAN \cup {NULL}]
  /\ seen \in [Elements -> SUBSET BOOLEAN]

(* svp_payload_init of every element; getting the context may fail.        *)
InitContextGarbage == \* mutant: svpCtx is not NULL before it is asked for
  /\ ctx \in [Elements -> {"garbage"}]
  /\ liveCtx = {}

InitContext ==
  /\ ctx \in [Elements -> Contexts \cup {NULL}]
  /\ \A e, f \in Elements : e # f /\ ctx[e] = ctx[f] => ctx[e] = NULL
  /\ liveCtx = {ctx[e] : e \in Elements} \ {NULL}

Init ==
  /\ state = [e \in Elements |-> "NULL"]
  /\ change = [e \in Elements |-> "none"]
  /\ InitContext
  /\ refused = {}
  /\ flag = [e \in Elements |-> FALSE]
  /\ cached = [e \in Elements |-> NULL]
  /\ store = NULL /\ writer = NULL
  /\ pc = [e \in Elements |-> "idle"]
  /\ secure = [e \in Elements |-> FALSE]
  /\ out = [e \in Elements |-> "same"]
  /\ asked = [e \in Elements |-> NULL]
  /\ seen = [e \in Elements |-> {}]

-----------------------------------------------------------------------------
(* svpPayloadChangeState.  No state change overtakes another.              *)

(* gst_svp_ext_get_context; its result is ignored.                         *)
GetContext(e) ==
  \/ \E c \in Contexts \ liveCtx :
       ctx' = [ctx EXCEPT ![e] = c] /\ liveCtx' = liveCtx \cup {c}
  \/ UNCHANGED <<ctx, liveCtx>>

NullToReadyAlwaysGets(e) == \* mutant: the context of init is not looked at
  /\ state[e] = "NULL" /\ change[e] = "none"
  /\ GetContext(e)
  /\ \E next \in {"NULL", "READY"} : state' = [state EXCEPT ![e] = next]
  /\ UNCHANGED <<change, refused, flag, mode, pc, buffer, asked>>

NullToReady(e) ==
  /\ state[e] = "NULL" /\ change[e] = "none"
  /\ IF ctx[e] = NULL THEN GetContext(e) ELSE UNCHANGED <<ctx, liveCtx>>
  /\ \E next \in {"NULL", "READY"} : state' = [state EXCEPT ![e] = next]
  /\ UNCHANGED <<change, refused, flag, mode, pc, buffer, asked>>

(* Deactivating the pads waits for the streaming thread.                   *)
ReadyToPaused(e) ==
  /\ state[e] = "READY" /\ change[e] = "none"
  /\ state' = [state EXCEPT ![e] = "PAUSED"]
  /\ UNCHANGED <<change, ctx, liveCtx, refused, flag, mode, pc, buffer, asked>>

PausedToReady(e) ==
  /\ state[e] = "PAUSED" /\ pc[e] = "idle"
  /\ state' = [state EXCEPT ![e] = "READY"]
  /\ UNCHANGED <<change, ctx, liveCtx, refused, flag, mode, pc, buffer, asked>>

(* The parent class goes first; its result does not matter.                *)
ReadyToNull(e) ==
  /\ state[e] = "READY" /\ change[e] = "none"
  /\ \E next \in {"NULL", "READY"} : state' = [state EXCEPT ![e] = next]
  /\ change' = [change EXCEPT ![e] = "free"]
  /\ UNCHANGED <<ctx, liveCtx, refused, flag, mode, pc, buffer, asked>>

(* gst_svp_ext_free_context; its result is ignored.                        *)
FreeContext(e) ==
  /\ change[e] = "free"
  /\ \/ liveCtx' = liveCtx \ {ctx[e]} /\ UNCHANGED refused
     \/ refused' = refused \cup ({ctx[e]} \ {NULL}) /\ UNCHANGED liveCtx
  /\ change' = [change EXCEPT ![e] = "clear"]
  /\ UNCHANGED <<state, ctx, flag, mode, pc, buffer, asked>>

ClearContext(e) ==
  /\ change[e] = "clear"
  /\ ctx' = [ctx EXCEPT ![e] = NULL]
  /\ change' = [change EXCEPT ![e] = "none"]
  /\ UNCHANGED <<state, liveCtx, refused, flag, mode, pc, buffer, asked>>

-----------------------------------------------------------------------------
(* svpPayloadTransformCaps, for either direction, whether or not the caps  *)
(* can be transformed: the mode is that of the last caps anyone asked for. *)
TransformCaps(e, decryptToHost) ==
  /\ flag' = [flag EXCEPT ![e] = decryptToHost]
  /\ seen' = [seen EXCEPT ![e] = IF Handling(e) THEN @ \cup {decryptToHost} ELSE @]
  /\ UNCHANGED <<lifecycle, mode, pc, secure, out, asked>>

-----------------------------------------------------------------------------
(* The streaming thread, between two reads of the mode.                    *)

(* svpPayloadPrepareOutputBuffer.                                          *)
PrepareOutputBuffer(e) ==
  /\ state[e] = "PAUSED" /\ pc[e] = "idle"
  /\ \E s \in BOOLEAN :
       /\ secure' = [secure EXCEPT ![e] = s]
       /\ out' = [out EXCEPT ![e] = IF s \/ flag[e] THEN "same" ELSE "copy"]
  /\ pc' = [pc EXCEPT ![e] = "prepared"]
  /\ seen' = [seen EXCEPT ![e] = {flag[e]}]
  /\ UNCHANGED <<lifecycle, flag, mode, asked>>

(* Lines 143-144 read the mode once, and svpPayloadUpdateDecryptToHost     *)
(* calls the store with this copy unless it knows that nothing changed.    *)
UpdateDecryptToHost(e) ==
  /\ pc[e] = "prepared"
  /\ \/ /\ cached[e] = flag[e]
        /\ pc' = [pc EXCEPT ![e] = "decide"]
        /\ UNCHANGED asked
     \/ /\ cached[e] # flag[e]
        /\ pc' = [pc EXCEPT ![e] = "asking"]
        /\ asked' = [asked EXCEPT ![e] = flag[e]]
  /\ UNCHANGED <<lifecycle, flag, mode, buffer>>

(* The store takes the value or not; without a context it does not.        *)
StoreAnswersField(e) == \* mutant: the address of the field is passed, not the copy's
  /\ pc[e] = "asking" /\ ctx[e] # NULL
  /\ store' = flag[e] /\ writer' = e
  /\ pc' = [pc EXCEPT ![e] = "told"]
  /\ UNCHANGED <<lifecycle, flag, cached, buffer, asked>>

StoreAnswers(e) ==
  /\ pc[e] = "asking"
  /\ \/ /\ ctx[e] # NULL
        /\ store' = asked[e] /\ writer' = e
        /\ pc' = [pc EXCEPT ![e] = "told"]
     \/ pc' = [pc EXCEPT ![e] = "denied"] /\ UNCHANGED <<store, writer>>
  /\ UNCHANGED <<lifecycle, flag, cached, buffer, asked>>

(* The cache follows a set that succeeded.                                 *)
UpdateReturnsCached(e) == \* mutant: the result of the set is not looked at
  /\ pc[e] \in {"told", "denied"}
  /\ cached' = [cached EXCEPT ![e] = asked[e]]
  /\ asked' = [asked EXCEPT ![e] = NULL]
  /\ pc' = [pc EXCEPT ![e] = "decide"]
  /\ UNCHANGED <<lifecycle, flag, store, writer, buffer>>

UpdateReturns(e) ==
  /\ pc[e] \in {"told", "denied"}
  /\ cached' = [cached EXCEPT ![e] = IF pc[e] = "told" THEN asked[e] ELSE @]
  /\ asked' = [asked EXCEPT ![e] = NULL]
  /\ pc' = [pc EXCEPT ![e] = "decide"]
  /\ UNCHANGED <<lifecycle, flag, store, writer, buffer>>

(* Lines 146-154: pass through what is secure or stays on the host, if the *)
(* output was prepared for that.                                           *)
DecideByCache(e) == \* mutant: the mode the store was last told
  /\ pc[e] = "decide"
  /\ pc' = [pc EXCEPT ![e] =
              IF secure[e] \/ cached[e] = TRUE
              THEN IF out[e] = "same" THEN "passed" ELSE "refused"
              ELSE "transform"]
  /\ UNCHANGED <<lifecycle, flag, mode, buffer, asked>>

Decide(e) ==
  /\ pc[e] = "decide"
  /\ pc' = [pc EXCEPT ![e] =
              IF secure[e] \/ flag[e]
              THEN IF out[e] = "same" THEN "passed" ELSE "refused"
              ELSE "transform"]
  /\ UNCHANGED <<lifecycle, flag, mode, buffer, asked>>

(* gst_buffer_svp_transform_from_cleardata, on the output buffer.          *)
TransformFromClear(e) ==
  /\ pc[e] = "transform"
  /\ \E result \in {"transformed", "failed"} : pc' = [pc EXCEPT ![e] = result]
  /\ UNCHANGED <<lifecycle, flag, mode, buffer, asked>>

(* svpPayloadTransform has returned.                                       *)
NextBuffer(e) ==
  /\ pc[e] \in Ended
  /\ pc' = [pc EXCEPT ![e] = "idle"]
  /\ secure' = [secure EXCEPT ![e] = FALSE]
  /\ out' = [out EXCEPT ![e] = "same"]
  /\ seen' = [seen EXCEPT ![e] = {}]
  /\ UNCHANGED <<lifecycle, flag, mode, asked>>

Next ==
  \E e \in Elements :
    \/ NullToReady(e) \/ ReadyToPaused(e) \/ PausedToReady(e)
    \/ ReadyToNull(e) \/ FreeContext(e) \/ ClearContext(e)
    \/ \E decryptToHost \in BOOLEAN : TransformCaps(e, decryptToHost)
    \/ PrepareOutputBuffer(e)
    \/ UpdateDecryptToHost(e) \/ StoreAnswers(e) \/ UpdateReturns(e)
    \/ Decide(e) \/ TransformFromClear(e) \/ NextBuffer(e)

Spec == Init /\ [][Next]_vars

-----------------------------------------------------------------------------
(* Over any sequence of state changes every context the library gave out   *)
(* is the context of exactly one element, or the library refused to take   *)
(* it back, which nobody notices.  The streaming thread handles a buffer   *)
(* with a context that is its element's own and was not given back.        *)
Having == {e \in Elements : change[e] # "clear" /\ ctx[e] # NULL}

ContextOwnership ==
  /\ liveCtx = refused \cup {ctx[e] : e \in Having}
  /\ \A e \in Having : ctx[e] \notin refused
  /\ \A e, f \in Having : e # f => ctx[e] # ctx[f]
  /\ \A e \in Elements : pc[e] # "idle" => ctx[e] = NULL \/ e \in Having

(* However caps queries race with the buffer: data in the clear goes on as *)
(* it is only if the mode was on at some moment of the buffer, a buffer is *)
(* transformed only if it was in the clear and the mode was off at some    *)
(* moment, and a buffer is refused, or transformed where it lies, only if  *)
(* the mode changed under it.  Secure buffers always pass.                 *)
OutcomeExplained ==
  \A e \in Elements :
    /\ pc[e] = "passed" => secure[e] \/ TRUE \in seen[e]
    /\ pc[e] \in {"transformed", "failed"} => ~secure[e] /\ FALSE \in seen[e]
    /\ pc[e] = "refused" => ~secure[e] /\ seen[e] = BOOLEAN
    /\ pc[e] = "transformed" /\ out[e] = "same" => seen[e] = BOOLEAN

(* The element that set the store last knows what is in it, once its call  *)
(* has returned: skipping the set is then right, also after sets that      *)
(* failed, and with sets of other elements at any moment of the call.      *)
WriterKnowsStore ==
  \A e \in Elements : writer = e /\ pc[e] # "told" => cached[e] = store

(* The elements use the store as it is meant to be used: each call tells   *)
(* it one value, which no caps query changes on the way, and is told once  *)
(* whether the store took it.                                              *)
Api == INSTANCE StoreApi
         WITH Threads <- Elements,
              Requests <- SetRequests, Supported <- SetRequests,
              store <- [n \in {"decryptToHost"} |-> store],
              req <- [e \in Elements |-> IF asked[e] = NULL THEN NULL ELSE SetRequest(asked[e])],
              answer <- [e \in Elements |-> IF pc[e] = "told" THEN asked[e]
                                            ELSE IF pc[e] = "denied" THEN Failed ELSE NULL]

CallsStore == Api!Spec

(* The g_return_val_if_fail of svpPayloadTransform: a buffer that passes   *)
(* through was prepared as its own output.                                 *)
PassthroughKeepsBuffer ==
  \A e \in Elements : pc[e] = "decide" /\ (secure[e] \/ flag[e]) => out[e] = "same"
=============================================================================
