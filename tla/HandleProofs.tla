---------------------------- MODULE HandleProofs ----------------------------
(***************************************************************************)
(* Whatever the number of wrappers and handles and the type of handle: one *)
(* owner, and a running callback that lives; and no failed assertion for   *)
(* the types that free_handle knows.                                       *)
(***************************************************************************)
EXTENDS Handle, TLAPS

\* What libuv may call back has a callback.
HasCallback ==
    fault = "none" => \A h \in Handles :
        /\ uv[h] = "active" => m_lut[h]["uv_cid_poll"] # NoCallback
        /\ uv[h] = "closing" => m_lut[h]["uv_cid_close"] # NoCallback

\* The callback of close runs for a closing handle only.
CallingInTurn ==
    calling # NoCall /\ calling.cid = "uv_cid_close" => uv[calling.handle] = "closing"

\* The only assertion that can fail is that of free_handle.
FaultIsType == fault # "none" => Type \notin FreeHandleTypes

Inv == /\ TypeOK /\ OneOwner /\ RunningCallbackLives /\ HasCallback
       /\ CallingInTurn /\ FaultIsType

\* Every variable keeps to its type (handle.hpp:168-171, callback.hpp:138).
THEOREM HandleTypeCorrect == Spec => []TypeOK
<1> USE HandleAssumption
<1>1. Init => TypeOK
  BY DEF Init, TypeOK, EmptyLut
<1>2. TypeOK /\ [Next]_vars => TypeOK'
  <2> SUFFICES ASSUME TypeOK, [Next]_vars PROVE TypeOK'
    OBVIOUS
  <2> USE DEF TypeOK, wrapperVars
  <2>0. EmptyLut \in [Cids -> Callbacks \cup {NoCallback}]
    BY DEF EmptyLut
  <2>1. ASSUME NEW w \in Wrappers, NEW h \in Handles, NewHandle(w, h)
        PROVE  /\ m_uv_handle' \in [Wrappers -> Handles \cup {NoHandle}]
               /\ m_will_close' \in [Wrappers -> BOOLEAN]
               /\ uv' \in [Handles -> {"free", "idle", "active", "closing"}]
               /\ m_lut' \in [Handles -> [Cids -> Callbacks \cup {NoCallback}]]
    BY <2>0, <2>1 DEF NewHandle
  <2>2. ASSUME NEW h \in Handles, FreeHandle(h)
        PROVE  /\ uv' \in [Handles -> {"free", "idle", "active", "closing"}]
               /\ m_lut' \in [Handles -> [Cids -> Callbacks \cup {NoCallback}]]
               /\ fault' \in {"none", "invoke", "free_handle", "is_closing"}
    BY <2>0, <2>2 DEF FreeHandle
  <2>3. ASSUME NEW h \in Handles, NEW cid \in Cids, NEW callback \in Callbacks,
               Store(h, cid, callback)
        PROVE  m_lut' \in [Handles -> [Cids -> Callbacks \cup {NoCallback}]]
    BY <2>3 DEF Store
  <2>4. ASSUME NEW w \in Wrappers, NEW v \in Wrappers, Move(w, v)
        PROVE  /\ m_uv_handle' \in [Wrappers -> Handles \cup {NoHandle}]
               /\ m_will_close' \in [Wrappers -> BOOLEAN]
               /\ UNCHANGED <<uv, m_lut, calling, fault>>
    BY <2>4 DEF Move
  <2>5. ASSUME NEW h \in Handles, NEW cid \in Cids, Invoke(h, cid) PROVE TypeOK'
    <3>1. CASE m_lut[h][cid] = NoCallback
      BY <2>5, <3>1 DEF Invoke
    <3>2. CASE m_lut[h][cid] # NoCallback
      <4>1. m_lut[h][cid] \in Callbacks
        BY <3>2
      <4>2. calling' \in Calls
        BY <2>5, <3>2, <4>1 DEF Invoke, Calls
      <4>3. QED
        BY <2>5, <3>2, <4>2 DEF Invoke
    <3>3. QED
      BY <3>1, <3>2
  <2>6. ASSUME NEW w \in Wrappers, Construct(w) PROVE TypeOK'
    BY <2>1, <2>6 DEF Construct
  <2>7. ASSUME NEW w \in Wrappers, Reset(w) PROVE TypeOK'
    BY <2>1, <2>7 DEF Reset
  <2>8. ASSUME NEW w \in Wrappers, Start(w) PROVE TypeOK'
    BY <2>3, <2>8 DEF Start, Cids
  <2>9. ASSUME NEW w \in Wrappers, Stop(w) PROVE TypeOK'
    BY <2>9 DEF Stop
  <2>10. ASSUME NEW w \in Wrappers, Close(w) PROVE TypeOK'
    BY <2>3, <2>10 DEF Close, Cids, Forget
  <2>11. ASSUME NEW w \in Wrappers, Destroy(w) PROVE TypeOK'
    BY <2>11 DEF Destroy
  <2>12. ASSUME NEW w \in Wrappers, NEW v \in Wrappers, MoveConstruct(w, v) PROVE TypeOK'
    BY <2>4, <2>12 DEF MoveConstruct
  <2>13. ASSUME NEW w \in Wrappers, NEW v \in Wrappers, MoveAssign(w, v) PROVE TypeOK'
    BY <2>4, <2>13 DEF MoveAssign
  <2>14. ASSUME NEW h \in Handles, PollReady(h) \/ CloseReady(h) PROVE TypeOK'
    BY <2>5, <2>14 DEF PollReady, CloseReady, Cids
  <2>15. ASSUME PollReturns PROVE TypeOK'
    BY <2>15 DEF PollReturns
  <2>16. ASSUME CloseReturns PROVE TypeOK'
    <3>1. calling.handle \in Handles
      BY <2>16 DEF CloseReturns, Calls
    <3>2. QED
      BY <2>2, <2>16, <3>1 DEF CloseReturns
  <2>17. CASE UNCHANGED vars
    BY <2>17 DEF vars
  <2>18. QED
    BY <2>6, <2>7, <2>8, <2>9, <2>10, <2>11, <2>12, <2>13, <2>14, <2>15, <2>16,
       <2>17 DEF Next, Loop, Program
<1>3. QED
  BY <1>1, <1>2, PTL DEF Spec

\* What a wrapper owns is not closing: of its callbacks at most the other runs.
LEMMA OwnerIsClosed ==
  ASSUME TypeOK, OneOwner, RunningCallbackLives, CallingInTurn,
         NEW w \in Wrappers, NEW h \in Handles, Owns(w, h)
  PROVE  /\ uv[h] \in {"idle", "active"}
         /\ calling # NoCall /\ calling.handle = h => calling.cid = "uv_cid_poll"
<1>1. uv[h] \in {"idle", "active"}
  BY DEF OneOwner, Owns
<1>2. calling # NoCall => calling.cid \in Cids
  BY DEF TypeOK, Calls
<1>3. QED
  BY <1>1, <1>2 DEF CallingInTurn, Cids

\* Every call of the program and every step of the loop keeps the parts of the
\* invariant.
LEMMA StepKeepsParts ==
  ASSUME Inv, TypeOK', Next
  PROVE  /\ OneOwner' /\ RunningCallbackLives' /\ HasCallback'
         /\ CallingInTurn' /\ FaultIsType'
<1> DEFINE Parts == OneOwner /\ RunningCallbackLives /\ HasCallback /\ CallingInTurn
                    /\ FaultIsType
<1> USE HandleAssumption DEF Inv, wrapperVars
<1>0. calling # NoCall => calling.handle \in Handles /\ calling.cid \in Cids
                          /\ calling.callback \in Callbacks
  BY DEF TypeOK, Calls
<1>1. fault = "none"
  BY DEF Next
<1>2. ASSUME NEW w \in Wrappers, NEW h \in Handles, NewHandle(w, h),
             w \notin objects \/ Empty(w), objects' = objects \cup {w},
             UNCHANGED <<calling, fault>>
      PROVE  Parts'
  <2> USE DEF NewHandle, TypeOK
  <2>1. \A v \in objects : v # w => m_uv_handle'[v] = m_uv_handle[v] /\ m_uv_handle[v] # h
    BY <1>2 DEF OneOwner, Owns
  <2>2. OneOwner'
    BY <1>2, <2>1 DEF OneOwner, Owns, Empty
  <2>3. RunningCallbackLives' /\ CallingInTurn'
    BY <1>0, <1>2 DEF RunningCallbackLives, CallingInTurn, Cids
  <2>4. HasCallback' /\ FaultIsType'
    BY <1>1, <1>2 DEF HasCallback, FaultIsType
  <2>5. QED
    BY <2>2, <2>3, <2>4
<1>3. ASSUME NEW w \in Wrappers, NEW v \in Wrappers, Move(w, v), w # v,
             w \notin objects \/ Empty(w), objects' = objects \cup {w}
      PROVE  Parts'
  <2> USE DEF Move, TypeOK
  <2>1. \A x \in objects' : m_uv_handle'[x] = IF x = w THEN m_uv_handle[v] ELSE
                                IF x = v THEN NoHandle ELSE m_uv_handle[x]
    BY <1>3
  <2>2. OneOwner'
    <3>1. ASSUME NEW h \in Handles, NEW x \in objects'
          PROVE  Owns(x, h)' <=> (IF x = w THEN Owns(v, h) ELSE x # v /\ Owns(x, h))
      BY <1>3, <2>1 DEF Owns
    <3>2. ASSUME NEW h \in Handles, NEW x \in objects', NEW y \in objects',
                 Owns(x, h)', Owns(y, h)'
          PROVE  x = y
      BY <1>3, <3>1, <3>2 DEF OneOwner, Owns
    <3>3. ASSUME NEW h \in Handles
          PROVE  (\E x \in objects' : Owns(x, h)') <=> (\E x \in objects : Owns(x, h))
      BY <1>3, <3>1 DEF Owns, Empty
    <3>4. QED
      BY <1>3, <3>2, <3>3 DEF OneOwner, Owns
  <2>3. QED
    BY <1>3, <2>2 DEF RunningCallbackLives, HasCallback, CallingInTurn, FaultIsType
<1>4. ASSUME NEW w \in Wrappers, Construct(w) PROVE Parts'
  BY <1>2, <1>4 DEF Construct
<1>5. ASSUME NEW w \in Wrappers, Reset(w) PROVE Parts'
  <2>1. objects' = objects \cup {w}
    BY <1>5 DEF Reset, Empty
  <2>2. QED
    BY <1>2, <1>5, <2>1 DEF Reset
<1>6. ASSUME NEW w \in Wrappers, NEW v \in Wrappers, MoveConstruct(w, v) PROVE Parts'
  <2>1. w # v
    BY <1>6 DEF MoveConstruct, Move
  <2>2. QED
    BY <1>3, <1>6, <2>1 DEF MoveConstruct
<1>7. ASSUME NEW w \in Wrappers, NEW v \in Wrappers, MoveAssign(w, v) PROVE Parts'
  <2>1. objects' = objects \cup {w}
    BY <1>7 DEF MoveAssign, Empty
  <2>2. QED
    BY <1>3, <1>7, <2>1 DEF MoveAssign
<1>8. ASSUME NEW w \in Wrappers, Start(w) PROVE Parts'
  <2>1. PICK h \in Handles, callback \in Callbacks :
            /\ Owns(w, h)
            /\ calling # NoCall => calling.handle # h \/ calling.cid # "uv_cid_poll"
            /\ Store(h, "uv_cid_poll", callback)
            /\ \E state \in {uv[h], "active"} : uv' = [uv EXCEPT ![h] = state]
            /\ UNCHANGED <<wrapperVars, calling, fault>>
    BY <1>8 DEF Start
  <2>2. /\ uv[h] \in {"idle", "active"} /\ uv'[h] \in {"idle", "active"}
        /\ calling # NoCall => calling.handle # h
    BY <2>1, OwnerIsClosed DEF TypeOK
  <2>3. /\ \A i \in Handles : i # h => uv'[i] = uv[i] /\ m_lut'[i] = m_lut[i]
        /\ m_lut'[h]["uv_cid_poll"] # NoCallback
    BY <2>1 DEF Store, TypeOK, Cids
  <2>4. OneOwner'
    BY <2>1, <2>2, <2>3 DEF OneOwner, Owns
  <2>5. RunningCallbackLives' /\ CallingInTurn'
    BY <1>0, <2>1, <2>2, <2>3 DEF RunningCallbackLives, CallingInTurn
  <2>6. HasCallback' /\ FaultIsType'
    BY <2>1, <2>2, <2>3, <1>1 DEF HasCallback, FaultIsType
  <2>7. QED
    BY <2>4, <2>5, <2>6
<1>9. ASSUME NEW w \in Wrappers, Stop(w) PROVE Parts'
  <2>1. PICK h \in Handles : Owns(w, h) /\ uv' = [uv EXCEPT ![h] = "idle"]
    BY <1>9 DEF Stop
  <2>2. uv[h] \in {"idle", "active"} /\ UNCHANGED <<wrapperVars, m_lut, calling, fault>>
    BY <1>9, <2>1, OwnerIsClosed DEF Stop
  <2>3. OneOwner'
    BY <2>1, <2>2 DEF OneOwner, Owns, TypeOK
  <2>4. QED
    BY <1>0, <2>1, <2>2, <2>3
       DEF RunningCallbackLives, HasCallback, CallingInTurn, FaultIsType, TypeOK
<1>10. ASSUME NEW w \in Wrappers, Close(w) PROVE Parts'
  <2>1. PICK h \in Handles, callback \in Callbacks :
            Owns(w, h) /\ Store(h, "uv_cid_close", callback)
    BY <1>10 DEF Close
  <2>2. /\ uv[h] \in {"idle", "active"}
        /\ calling # NoCall /\ calling.handle = h => calling.cid = "uv_cid_poll"
    BY <2>1, OwnerIsClosed
  <2>3. /\ Forget(w) /\ uv' = [uv EXCEPT ![h] = "closing"]
        /\ UNCHANGED <<objects, calling, fault>>
    BY <1>10, <2>1 DEF Close, Owns
  <2>4. /\ \A i \in Handles : i # h => uv'[i] = uv[i] /\ m_lut'[i] = m_lut[i]
        /\ uv'[h] = "closing"
        /\ m_lut'[h]["uv_cid_close"] # NoCallback
        /\ m_lut'[h]["uv_cid_poll"] = m_lut[h]["uv_cid_poll"]
    BY <2>1, <2>3 DEF Store, TypeOK, Cids
  <2>5. OneOwner'
    <3>1. \A x \in objects : m_uv_handle'[x] = IF x = w THEN NoHandle ELSE m_uv_handle[x]
      BY <2>3 DEF Forget, TypeOK
    <3>2. QED
      BY <2>1, <2>2, <2>3, <2>4, <3>1 DEF OneOwner, Owns
  <2>6. RunningCallbackLives' /\ CallingInTurn'
    BY <1>0, <2>2, <2>3, <2>4 DEF RunningCallbackLives, CallingInTurn
  <2>7. HasCallback' /\ FaultIsType'
    BY <1>1, <2>3, <2>4 DEF HasCallback, FaultIsType
  <2>8. QED
    BY <2>5, <2>6, <2>7
<1>11. ASSUME NEW w \in Wrappers, Destroy(w) PROVE Parts'
  <2>1. OneOwner'
    BY <1>11 DEF Destroy, OneOwner, Owns, Empty
  <2>2. QED
    BY <1>11, <2>1
       DEF Destroy, RunningCallbackLives, HasCallback, CallingInTurn, FaultIsType
<1>12. ASSUME NEW h \in Handles, PollReady(h) \/ CloseReady(h) PROVE Parts'
  <2>1. PICK cid \in Cids : /\ Invoke(h, cid)
                            /\ uv[h] = IF cid = "uv_cid_poll" THEN "active" ELSE "closing"
    BY <1>12 DEF PollReady, CloseReady, Cids
  <2>2. m_lut[h][cid] # NoCallback
    BY <1>1, <2>1 DEF HasCallback, Cids
  <2>3. /\ calling' = [handle |-> h, cid |-> cid, callback |-> m_lut[h][cid]]
        /\ UNCHANGED <<wrapperVars, uv, m_lut, fault>>
    BY <2>1, <2>2 DEF Invoke
  <2>4. OneOwner' /\ HasCallback' /\ FaultIsType'
    BY <2>3 DEF OneOwner, Owns, HasCallback, FaultIsType
  <2>5. RunningCallbackLives' /\ CallingInTurn'
    BY <2>1, <2>3 DEF RunningCallbackLives, CallingInTurn, Cids
  <2>6. QED
    BY <2>4, <2>5
<1>13. ASSUME PollReturns PROVE Parts'
  BY <1>13 DEF PollReturns, OneOwner, Owns, RunningCallbackLives, HasCallback,
               CallingInTurn, FaultIsType
<1>14. ASSUME CloseReturns PROVE Parts'
  <2>1. calling' = NoCall /\ UNCHANGED wrapperVars
    BY <1>14 DEF CloseReturns
  <2>2. PICK h \in Handles : h = calling.handle /\ uv[h] = "closing" /\ FreeHandle(h)
    BY <1>0, <1>14 DEF CloseReturns, CallingInTurn
  <2>3. /\ uv'[h] \in {"free", "closing"}
        /\ \A i \in Handles : i # h => uv'[i] = uv[i] /\ m_lut'[i] = m_lut[i]
    BY <2>2 DEF FreeHandle, TypeOK
  <2>4. OneOwner'
    BY <2>1, <2>2, <2>3 DEF OneOwner, Owns
  <2>5. RunningCallbackLives' /\ CallingInTurn'
    BY <2>1 DEF RunningCallbackLives, CallingInTurn
  <2>6. HasCallback' /\ FaultIsType'
    <3>1. CASE Type \in FreeHandleTypes
      BY <1>1, <2>2, <2>3, <3>1 DEF HasCallback, FaultIsType, FreeHandle, TypeOK
    <3>2. CASE Type \notin FreeHandleTypes
      BY <2>2, <3>2 DEF HasCallback, FaultIsType, FreeHandle
    <3>3. QED
      BY <3>1, <3>2
  <2>7. QED
    BY <2>4, <2>5, <2>6
<1>15. QED
  BY <1>4, <1>5, <1>6, <1>7, <1>8, <1>9, <1>10, <1>11, <1>12, <1>13, <1>14
     DEF Next, Loop, Program

\* The inductive invariant: who owns what, and what has a callback.
THEOREM HandleInvariant == Spec => []Inv
<1>1. Init => Inv
  BY HandleAssumption
     DEF Init, Inv, TypeOK, EmptyLut, OneOwner, Owns, RunningCallbackLives, HasCallback,
         CallingInTurn, FaultIsType
<1>2. Inv /\ TypeOK' /\ [Next]_vars => Inv'
  <2> SUFFICES ASSUME Inv, TypeOK', [Next]_vars PROVE Inv'
    OBVIOUS
  <2>1. CASE Next
    BY <2>1, StepKeepsParts DEF Inv
  <2>2. CASE UNCHANGED vars
    BY <2>2 DEF vars, wrapperVars, Inv, TypeOK, OneOwner, Owns, RunningCallbackLives,
                HasCallback, CallingInTurn, FaultIsType
  <2>3. QED
    BY <2>1, <2>2
<1>3. QED
  BY <1>1, <1>2, HandleTypeCorrect, PTL DEF Spec

\* No handle leaks, none is owned twice (handle.hpp:90-116, 149-166).
THEOREM HandleHasOneOwner == Spec => []OneOwner
<1>1. Inv => OneOwner
  BY DEF Inv
<1>2. QED
  BY <1>1, HandleInvariant, PTL

\* The function that libuv runs is not destroyed while it runs, whatever it closes
\* and destroys (callback.hpp:120, handle.hpp:149-163).
THEOREM CallbackOutlivesItsCall == Spec => []RunningCallbackLives
<1>1. Inv => RunningCallbackLives
  BY DEF Inv
<1>2. QED
  BY <1>1, HandleInvariant, PTL

\* For a type that free_handle knows no assertion fails (callback.hpp:133,
\* handle.hpp:20-65).
THEOREM KnownTypesDoNotFault ==
  ASSUME Type \in FreeHandleTypes PROVE Spec => []NoFault
<1>1. Inv => NoFault
  BY DEF Inv, FaultIsType, NoFault
<1>2. QED
  BY <1>1, HandleInvariant, PTL

-----------------------------------------------------------------------------
(* The lifecycle *)

\* A call or callback of the wrappers is one step of the life of the handles.
LEMMA StepIsOfLife ==
  ASSUME Type \in FreeHandleTypes, Inv, Inv', Next
  PROVE  [Life!Next]_(Life!vars)
<1> USE HandleAssumption DEF wrapperVars
<1>0. calling # NoCall => /\ calling.handle \in Handles /\ calling.cid \in Cids
                          /\ calling = [handle |-> calling.handle, cid |-> calling.cid,
                                        callback |-> calling.callback]
  BY DEF Inv, TypeOK, Calls
<1>1. ASSUME NEW w \in Wrappers, NEW h \in Handles, NewHandle(w, h), UNCHANGED calling
      PROVE  Life!Allocate(h)
  BY <1>1 DEF NewHandle, Life!Allocate, Life!Becomes
<1>2. ASSUME NEW w \in Wrappers, Construct(w) \/ Reset(w) PROVE Life!Next
  BY <1>1, <1>2 DEF Construct, Reset, Life!Next
<1>3. ASSUME NEW w \in Wrappers, NEW v \in Wrappers,
             MoveConstruct(w, v) \/ MoveAssign(w, v) \/ Destroy(w)
      PROVE  UNCHANGED Life!vars
  BY <1>3 DEF MoveConstruct, MoveAssign, Move, Destroy, Life!vars
<1>4. ASSUME NEW w \in Wrappers, NEW h \in Handles, Owns(w, h)
      PROVE  uv[h] \in {"idle", "active"}
  BY <1>4, OwnerIsClosed DEF Inv
<1>5. ASSUME NEW w \in Wrappers, Start(w) \/ Stop(w) PROVE Life!Next
  <2>1. PICK h \in Handles :
            /\ Owns(w, h) /\ UNCHANGED calling
            /\ \E s \in {uv[h], "active", "idle"} : uv' = [uv EXCEPT ![h] = s]
    BY <1>5 DEF Start, Stop
  <2>2. Life!StartOrStop(h)
    BY <1>4, <2>1 DEF Life!StartOrStop, Life!Becomes
  <2>3. QED
    BY <2>2 DEF Life!Next
<1>6. ASSUME NEW w \in Wrappers, Close(w) PROVE Life!Next
  <2>1. PICK h \in Handles : Owns(w, h) /\ uv' = [uv EXCEPT ![h] = "closing"]
                             /\ UNCHANGED calling
    BY <1>6 DEF Close
  <2>2. Life!Close(h)
    BY <1>4, <2>1 DEF Life!Close, Life!Becomes
  <2>3. QED
    BY <2>2 DEF Life!Next
<1>7. ASSUME NEW h \in Handles, PollReady(h) \/ CloseReady(h) PROVE Life!Next
  <2>1. PICK cid \in {"uv_cid_poll", "uv_cid_close"} :
            /\ Invoke(h, cid)
            /\ uv[h] = IF cid = "uv_cid_close" THEN "closing" ELSE "active"
    BY <1>7 DEF PollReady, CloseReady
  <2>2. fault = "none" /\ fault' = "none" /\ m_lut[h][cid] # NoCallback
    BY <2>1 DEF Inv, FaultIsType, HasCallback, Next
  <2>3. /\ calling = NoCall /\ UNCHANGED uv
        /\ calling' = [handle |-> h, cid |-> cid, callback |-> m_lut[h][cid]]
    BY <2>1, <2>2 DEF Invoke
  <2>4. calling' # NoCall
    <3>1. m_lut[h][cid] \in Callbacks
      BY <2>2 DEF Inv, TypeOK, Cids
    <3>2. calling' \in Calls
      BY <2>3, <3>1 DEF Calls, Cids
    <3>3. QED
      BY <3>2
  <2>5. Life!CallBack(h, cid)
    BY <2>1, <2>3, <2>4 DEF Life!CallBack
  <2>6. QED
    BY <2>1, <2>5 DEF Life!Next
<1>8. ASSUME PollReturns PROVE Life!Next
  <2>1. Life!Returns(calling.handle, "uv_cid_poll")
    BY <1>0, <1>8 DEF PollReturns, Life!Returns
  <2>2. QED
    BY <1>0, <1>8, <2>1 DEF PollReturns, Life!Next
<1>9. ASSUME CloseReturns PROVE Life!Next
  <2>1. Life!Returns(calling.handle, "uv_cid_close")
    BY <1>0, <1>9 DEF CloseReturns, FreeHandle, Life!Returns, Life!Becomes
  <2>2. QED
    BY <1>0, <1>9, <2>1 DEF CloseReturns, Life!Next
<1>10. QED
  BY <1>2, <1>3, <1>5, <1>6, <1>7, <1>8, <1>9 DEF Next, Loop, Program

\* For a type that free_handle knows the wrappers implement the life that libuv
\* asks of its handles (handle.hpp:81-166, poll.hpp:23-37).
THEOREM WrappersImplementLifecycle ==
  ASSUME Type \in FreeHandleTypes PROVE Spec => ImplementsLifecycle
<1>1. Init => Life!Init
  BY DEF Init, Life!Init
<1>2. Inv /\ Inv' /\ [Next]_vars => [Life!Next]_(Life!vars)
  <2>1. CASE Next
    BY <2>1, StepIsOfLife
  <2>2. CASE UNCHANGED vars
    BY <2>2 DEF vars, wrapperVars, Life!vars
  <2>3. QED
    BY <2>1, <2>2
<1>3. QED
  BY <1>1, <1>2, HandleInvariant, PTL DEF Spec, ImplementsLifecycle, Life!Spec

\* A program that closes before it destroys has its memory released on the close
\* call and not on the destructor, as handle.hpp:75 says of every program: what a
\* wrapper owns is never freed, and a closing handle is freed by its callback.
THEOREM CarefulReleasesByClose == Spec => ReleasedByClose
<1>1. Inv /\ [Next]_vars
        => [\A h \in Handles : uv[h] \in {"idle", "active"} => uv'[h] # "free"]_vars
  <2> SUFFICES ASSUME Inv, Next, NEW h \in Handles, uv[h] \in {"idle", "active"}
               PROVE  uv'[h] # "free"
    OBVIOUS
  <2> USE DEF Inv, TypeOK, wrapperVars
  <2>1. ASSUME CloseReturns PROVE uv'[h] # "free"
    <3>1. calling.handle \in Handles /\ uv[calling.handle] = "closing"
      BY <2>1 DEF CloseReturns, CallingInTurn, Calls
    <3>2. QED
      BY <2>1, <3>1 DEF CloseReturns, FreeHandle
  <2>2. ASSUME NEW w \in Wrappers, Program(w) PROVE uv'[h] # "free"
    BY <2>2 DEF Program, Construct, Reset, NewHandle, MoveConstruct, MoveAssign, Move,
                Start, Stop, Close, Destroy
  <2>3. ASSUME PollReturns \/ \E g \in Handles : PollReady(g) \/ CloseReady(g)
        PROVE  uv'[h] # "free"
    BY <2>3 DEF PollReturns, PollReady, CloseReady, Invoke
  <2>4. QED
    BY <2>1, <2>2, <2>3 DEF Next, Loop
<1>2. QED
  BY <1>1, HandleInvariant, PTL DEF Spec, ReleasedByClose
=============================================================================
