----------------------------- MODULE HandleLife -----------------------------
(***************************************************************************)
(* What libuv asks of those who use its handles, and the wrappers of       *)
(* src/include/uvpp promise: the memory of a handle stays from its         *)
(* initialisation until the callback of its one close has returned, a      *)
(* closing handle does not start again, and callbacks come one at a time.  *)
(***************************************************************************)
CONSTANTS Handles, Nobody

VARIABLES
    state,
    serving    \* whose callback runs, and which

vars == <<state, serving>>

Init == state = [h \in Handles |-> "free"] /\ serving = Nobody

Becomes(h, s) == state' = [state EXCEPT ![h] = s]

Allocate(h) == state[h] = "free" /\ Becomes(h, "idle") /\ UNCHANGED serving

StartOrStop(h) ==
    /\ state[h] \in {"idle", "active"}
    /\ Becomes(h, "idle") \/ Becomes(h, "active")
    /\ UNCHANGED serving

Close(h) ==
    /\ state[h] \in {"idle", "active"}
    /\ Becomes(h, "closing")
    /\ UNCHANGED serving

CallBack(h, cid) ==
    /\ serving = Nobody
    /\ state[h] = IF cid = "uv_cid_close" THEN "closing" ELSE "active"
    /\ serving' = [handle |-> h, cid |-> cid]
    /\ UNCHANGED state

Returns(h, cid) ==
    /\ serving = [handle |-> h, cid |-> cid]
    /\ serving' = Nobody
    /\ IF cid = "uv_cid_close" THEN Becomes(h, "free") ELSE UNCHANGED state

Next ==
    \E h \in Handles :
        \/ Allocate(h) \/ StartOrStop(h) \/ Close(h)
        \/ \E cid \in {"uv_cid_poll", "uv_cid_close"} : CallBack(h, cid) \/ Returns(h, cid)

Spec == Init /\ [][Next]_vars
=============================================================================
