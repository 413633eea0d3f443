------------------------------- MODULE Handle -------------------------------
(***************************************************************************)
(* The handle wrapper of src/include/uvpp: handle.hpp, the table of        *)
(* callback.hpp, and start, stop and reset of the wrappers built on them   *)
(* (poll.hpp, tcp.hpp).  A wrapper owns a libuv handle until it is closed  *)
(* or moved from; libuv owns a closing handle until it has called back.    *)
(*                                                                         *)
(* Everything runs in the thread of one loop: the program's calls come     *)
(* from a callback or from outside uv_run.                                 *)
(***************************************************************************)
CONSTANTS
    Wrappers, Handles,
    Callbacks,     \* functions that the program passes to start and close
    Type,          \* the type that uv_..._init gives the handles
    NoHandle, NoCallback, NoCall

Cids  == {"uv_cid_poll", "uv_cid_close"}
Calls == [handle : Handles, cid : Cids, callback : Callbacks]

ASSUME HandleAssumption ==
    NoHandle \notin Handles /\ NoCallback \notin Callbacks /\ NoCall \notin Calls

VARIABLES
    objects,        \* the wrappers that exist
    m_uv_handle, m_will_close,
    uv,             \* what libuv has of each handle; "free" is not allocated
    m_lut,          \* the callbacks of each handle
    calling,        \* the callback that runs
    fault           \* the line that the process failed at

wrapperVars == <<objects, m_uv_handle, m_will_close>>
vars == <<wrapperVars, uv, m_lut, calling, fault>>

TypeOK ==
    /\ objects \subseteq Wrappers
    /\ m_uv_handle \in [Wrappers -> Handles \cup {NoHandle}]
    /\ m_will_close \in [Wrappers -> BOOLEAN]
    /\ uv \in [Handles -> {"free", "idle", "active", "closing"}]
    /\ m_lut \in [Handles -> [Cids -> Callbacks \cup {NoCallback}]]
    /\ calling \in Calls \cup {NoCall}
    /\ fault \in {"none", "invoke", "free_handle", "is_closing"}

EmptyLut == [cid \in Cids |-> NoCallback]

Init ==
    /\ objects = {}
    /\ m_uv_handle = [w \in Wrappers |-> NoHandle]
    /\ m_will_close = [w \in Wrappers |-> FALSE]
    /\ uv = [h \in Handles |-> "free"]
    /\ m_lut = [h \in Handles |-> EmptyLut]
    /\ calling = NoCall
    /\ fault = "none"

\* Mutant: the callback is not stored.
StoreNothing(h, cid, callback) == UNCHANGED m_lut

\* callbacks::store: the object stored before is destroyed.
Store(h, cid, callback) == m_lut' = [m_lut EXCEPT ![h][cid] = callback]

\* The types in the switch of free_handle; for others it asserts.
FreeHandleTypes == {"UV_TCP", "UV_UDP", "UV_NAMED_PIPE", "UV_TTY", "UV_TIMER",
                    "UV_SIGNAL", "UV_POLL", "UV_ASYNC", "UV_IDLE", "UV_FS_EVENT"}

\* The table is deleted before the type is looked at.
FreeHandle(h) ==
    /\ m_lut' = [m_lut EXCEPT ![h] = EmptyLut]
    /\ uv' = IF Type \in FreeHandleTypes THEN [uv EXCEPT ![h] = "free"] ELSE uv
    /\ fault' = IF Type \in FreeHandleTypes THEN fault ELSE "free_handle"

Empty(w) == w \in objects /\ m_uv_handle[w] = NoHandle
Owns(w, h) == w \in objects /\ h \in Handles /\ m_uv_handle[w] = h

-----------------------------------------------------------------------------
(* The program's calls *)

\* new HANDLE_T with an empty table, which the constructor or reset of the
\* derived class then has libuv initialise.
NewHandle(w, h) ==
    /\ uv[h] = "free"
    /\ m_uv_handle' = [m_uv_handle EXCEPT ![w] = h]
    /\ m_will_close' = [m_will_close EXCEPT ![w] = FALSE]
    /\ uv' = [uv EXCEPT ![h] = "idle"]
    /\ m_lut' = [m_lut EXCEPT ![h] = EmptyLut]

Construct(w) ==
    /\ w \notin objects
    /\ \E h \in Handles : NewHandle(w, h)
    /\ objects' = objects \cup {w}
    /\ UNCHANGED <<calling, fault>>

\* reset forgets the handle that the wrapper had, so the program closes it first.
Reset(w) ==
    /\ Empty(w)
    /\ \E h \in Handles : NewHandle(w, h)
    /\ UNCHANGED <<objects, calling, fault>>

\* Mutant: the other wrapper keeps its handle.
MoveShared(w, v) ==
    /\ v \in objects
    /\ m_uv_handle' = [m_uv_handle EXCEPT ![w] = m_uv_handle[v]]
    /\ m_will_close' = [m_will_close EXCEPT ![w] = m_will_close[v]]
    /\ UNCHANGED <<uv, m_lut, calling, fault>>

Move(w, v) ==
    /\ v \in objects
    /\ m_uv_handle' = [m_uv_handle EXCEPT ![w] = m_uv_handle[v], ![v] = NoHandle]
    /\ m_will_close' = [m_will_close EXCEPT ![w] = m_will_close[v], ![v] = FALSE]
    /\ UNCHANGED <<uv, m_lut, calling, fault>>

MoveConstruct(w, v) ==
    /\ w \notin objects
    /\ Move(w, v)
    /\ objects' = objects \cup {w}

\* Assignment forgets the handle too; to itself it does nothing.
MoveAssign(w, v) ==
    /\ Empty(w) /\ w # v
    /\ Move(w, v)
    /\ UNCHANGED objects

\* start stores the callback before libuv may refuse.  The program does not
\* replace the callback that runs.
Start(w) ==
    \E h \in Handles, callback \in Callbacks :
        /\ Owns(w, h)
        /\ calling # NoCall => calling.handle # h \/ calling.cid # "uv_cid_poll"
        /\ Store(h, "uv_cid_poll", callback)
        /\ \E state \in {uv[h], "active"} : uv' = [uv EXCEPT ![h] = state]
        /\ UNCHANGED <<wrapperVars, calling, fault>>

Stop(w) ==
    \E h \in Handles :
        /\ Owns(w, h)
        /\ uv' = [uv EXCEPT ![h] = "idle"]
        /\ UNCHANGED <<wrapperVars, m_lut, calling, fault>>

Forget(w) ==
    /\ m_will_close' = [m_will_close EXCEPT ![w] = TRUE]
    /\ m_uv_handle' = [m_uv_handle EXCEPT ![w] = NoHandle]

\* Mutant: the handle is freed without waiting for libuv.
CloseFreeing(w) ==
    \E h \in Handles :
        /\ Owns(w, h)
        /\ Forget(w)
        /\ FreeHandle(h)
        /\ UNCHANGED <<objects, calling>>

\* A wrapper's handle is never closing, since close gives it away.
Close(w) ==
    \E h \in Handles, callback \in Callbacks :
        /\ Owns(w, h)
        /\ Store(h, "uv_cid_close", callback)
        /\ Forget(w)
        /\ uv' = [uv EXCEPT ![h] = "closing"]
        /\ UNCHANGED <<objects, calling, fault>>

\* ~handle of a wrapper that was closed or moved from.
Destroy(w) ==
    /\ Empty(w)
    /\ objects' = objects \ {w}
    /\ UNCHANGED <<m_uv_handle, m_will_close, uv, m_lut, calling, fault>>

-----------------------------------------------------------------------------
(* The calls of a program that takes less care *)

\* uv_is_closing(nullptr).
CloseAgain(w) ==
    /\ Empty(w)
    /\ fault' = "is_closing"
    /\ UNCHANGED <<wrapperVars, uv, m_lut, calling>>

\* ~handle frees what was not closed, and libuv is not told.
DestroyOpen(w) ==
    \E h \in Handles :
        /\ Owns(w, h)
        /\ FreeHandle(h)
        /\ objects' = objects \ {w}
        /\ m_uv_handle' = [m_uv_handle EXCEPT ![w] = NoHandle]
        /\ UNCHANGED <<m_will_close, calling>>

-----------------------------------------------------------------------------
(* The loop *)

\* callbacks::invoke asserts that there is one.
Invoke(h, cid) ==
    /\ calling = NoCall
    /\ IF m_lut[h][cid] = NoCallback
       THEN fault' = "invoke" /\ UNCHANGED calling
       ELSE calling' = [handle |-> h, cid |-> cid, callback |-> m_lut[h][cid]]
            /\ UNCHANGED fault
    /\ UNCHANGED <<wrapperVars, uv, m_lut>>

PollReady(h)  == uv[h] = "active" /\ Invoke(h, "uv_cid_poll")
CloseReady(h) == uv[h] = "closing" /\ Invoke(h, "uv_cid_close")

PollReturns ==
    /\ calling # NoCall /\ calling.cid = "uv_cid_poll"
    /\ calling' = NoCall
    /\ UNCHANGED <<wrapperVars, uv, m_lut, fault>>

\* Mutant: the handle is left to the wrapper's destructor.
CloseReturnsOnly ==
    /\ calling # NoCall /\ calling.cid = "uv_cid_close"
    /\ calling' = NoCall
    /\ UNCHANGED <<wrapperVars, uv, m_lut, fault>>

CloseReturns ==
    /\ calling # NoCall /\ calling.cid = "uv_cid_close"
    /\ FreeHandle(calling.handle)
    /\ calling' = NoCall
    /\ UNCHANGED wrapperVars

-----------------------------------------------------------------------------
Program(w) ==
    \/ Construct(w) \/ Reset(w) \/ Start(w) \/ Stop(w) \/ Close(w) \/ Destroy(w)
    \/ \E v \in Wrappers : MoveConstruct(w, v) \/ MoveAssign(w, v)

Loop == PollReturns \/ CloseReturns \/ \E h \in Handles : PollReady(h) \/ CloseReady(h)

Next == fault = "none" /\ (Loop \/ \E w \in Wrappers : Program(w))

AnyNext == Next \/ (fault = "none" /\ \E w \in Wrappers : CloseAgain(w) \/ DestroyOpen(w))

\* The program stays in uv_run, whose every iteration ends with the callbacks of
\* the closing handles, and callbacks return.
Fairness ==
    /\ WF_vars(fault = "none" /\ (PollReturns \/ CloseReturns))
    /\ \A h \in Handles : SF_vars(fault = "none" /\ CloseReady(h))

Spec     == Init /\ [][Next]_vars
FairSpec == Spec /\ Fairness
AnySpec  == Init /\ [][AnyNext]_vars

-----------------------------------------------------------------------------
(* Properties *)

\* No handle leaks and none has two owners: an allocated handle belongs to one
\* wrapper or is closing, a free one to nobody (handle.hpp:90-116, 149-166).
OneOwner ==
    \A h \in Handles :
        /\ \A w, v \in objects : Owns(w, h) /\ Owns(v, h) => w = v
        /\ uv[h] \in {"idle", "active"} <=> \E w \in objects : Owns(w, h)

\* The function that runs is not destroyed under its own feet, although it may
\* close and destroy its own wrapper (callback.hpp:120, handle.hpp:149-163).
RunningCallbackLives ==
    calling # NoCall => /\ uv[calling.handle] # "free"
                        /\ m_lut[calling.handle][calling.cid] = calling.callback

\* No assertion of the wrappers fails: what libuv calls back has a callback
\* (callback.hpp:133, handle.hpp:63).
NoFault == fault = "none"

\* A handle that is closed is given back (handle.hpp:158-163).
ClosedIsFreed ==
    \A h \in Handles : uv[h] = "closing" ~> uv[h] = "free"

\* The handles live as libuv asks: each call and callback of the wrappers is one
\* step of that life or none, so that memory is given back by the return of the
\* callback of close and by nothing else (handle.hpp:149-166, poll.hpp:23-37).
Life == INSTANCE HandleLife WITH
    Nobody <- NoCall, state <- uv,
    serving <- IF calling = NoCall THEN NoCall
               ELSE [handle |-> calling.handle, cid |-> calling.cid]
ImplementsLifecycle == Life!Spec

\* Violated.  "prevent assertion on double close" (handle.hpp:153): closing a
\* closed wrapper is harmless.
DoubleCloseReturns == fault # "is_closing"

\* Violated.  "Resources are released on the close call as mandated by libuv and
\* NOT on the dtor" (handle.hpp:75).
ReleasedByClose ==
    [][\A h \in Handles : uv[h] \in {"idle", "active"} => uv'[h] # "free"]_vars
=============================================================================
