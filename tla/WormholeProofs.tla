--------------------------- MODULE WormholeProofs ---------------------------
(***************************************************************************)
(* Whatever the number of callers: one network thread, an object for it,   *)
(* and a switch that is thrown atomically.                                 *)
(***************************************************************************)
EXTENDS WormholeSend, TLAPS

\* The lock is held by whoever is inside, and only by them.
LockHeld ==
    \A c \in Callers : pc[c] \in LockedPcs <=> g_wormhole_lock = c

\* How far the holder of the lock has got; "free" when nobody holds it.
Stage == IF g_wormhole_lock = NoCaller THEN "free" ELSE pc[g_wormhole_lock]

\* The parts of the wormhole come and go in this order.
StageInv ==
    /\ g_wormhole_connected <=> (Stage \in {"stop", "join", "release"}
                                 \/ (Stage = "free" /\ g_network_thread # NoThread))
    /\ Stage \in {"init", "spawn", "release"} => g_network_thread = NoThread
    /\ Stage \in {"stop", "join"} => g_network_thread # NoThread
    /\ Stage = "init" => m_pServer = NoServer
    /\ Stage \in {"spawn", "stop", "join", "release"} => m_pServer # NoServer
    /\ Stage = "free" => (m_pServer # NoServer <=> g_network_thread # NoThread)
    /\ m_pServer # NoServer => m_pServer.configured = 1

Inv == TypeOK /\ LockHeld /\ StageInv /\ OneThread

\* Every variable keeps to its type: the lock, the std::thread and the object of
\* the library (main.cpp:17-20).
THEOREM WormholeTypeCorrect == Spec => []TypeOK
<1> USE WormholeAssumption, NoServerAssumption
<1>1. Init => TypeOK
  BY DEF Init, TypeOK
<1>2. TypeOK /\ [Next]_vars => TypeOK'
  <2> SUFFICES ASSUME TypeOK, [Next]_vars PROVE TypeOK'
    OBVIOUS
  <2> USE DEF TypeOK, WaitingPcs, LockedPcs, LibServer, globalVars, Goto, Returns, Lock
  <2>1. ASSUME NEW c \in Callers, Call(c) PROVE TypeOK'
    BY <2>1 DEF Call
  <2>2. ASSUME NEW c \in Callers, StartRefused(c) PROVE TypeOK'
    BY <2>2 DEF StartRefused
  <2>3. ASSUME NEW c \in Callers, StartEnters(c) PROVE TypeOK'
    BY <2>3 DEF StartEnters
  <2>4. ASSUME NEW c \in Callers, DestroyIdle(c) PROVE TypeOK'
    BY <2>4 DEF DestroyIdle
  <2>5. ASSUME NEW c \in Callers, DestroyEnters(c) PROVE TypeOK'
    BY <2>5 DEF DestroyEnters
  <2>6. ASSUME NEW c \in Callers, InitLibrary(c) PROVE TypeOK'
    BY <2>6 DEF InitLibrary, NewServer
  <2>7. ASSUME NEW c \in Callers, SpawnThread(c) PROVE TypeOK'
    BY <2>7 DEF SpawnThread
  <2>8. ASSUME NEW c \in Callers, StopLibrary(c) PROVE TypeOK'
    BY <2>8 DEF StopLibrary
  <2>9. ASSUME NEW c \in Callers, JoinThread(c) PROVE TypeOK'
    BY <2>9 DEF JoinThread
  <2>10. ASSUME NEW c \in Callers, ReleaseLibrary(c) PROVE TypeOK'
    BY <2>10 DEF ReleaseLibrary
  <2>11. ASSUME NEW t \in Threads, EnterRun(t) PROVE TypeOK'
    BY <2>11 DEF EnterRun
  <2>12. ASSUME NEW t \in Threads, LoopEnds(t) PROVE TypeOK'
    BY <2>12 DEF LoopEnds
  <2>13. CASE UNCHANGED vars
    BY <2>13 DEF vars
  <2>14. QED
    BY <2>1, <2>2, <2>3, <2>4, <2>5, <2>6, <2>7, <2>8, <2>9, <2>10, <2>11,
       <2>12, <2>13 DEF Next, Caller, Locked, Network
<1>3. QED
  BY <1>1, <1>2, PTL DEF Spec

\* A step keeps the order in which the lock's holder builds and takes down the
\* wormhole.
LEMMA StepKeepsInv == Inv /\ TypeOK' /\ [Next]_vars => Inv'
<1> USE WormholeAssumption, NoServerAssumption
<1> SUFFICES ASSUME Inv, TypeOK', [Next]_vars PROVE (LockHeld /\ StageInv /\ OneThread)'
  BY DEF Inv
<1> USE DEF Inv, TypeOK, LockHeld, StageInv, OneThread, Stage, WaitingPcs, LockedPcs,
            globalVars, Goto, Returns, Lock
<1>1. ASSUME NEW c \in Callers, Call(c) PROVE (LockHeld /\ StageInv /\ OneThread)'
  BY <1>1 DEF Call
<1>2. ASSUME NEW c \in Callers, StartRefused(c) PROVE (LockHeld /\ StageInv /\ OneThread)'
  BY <1>2 DEF StartRefused
<1>3. ASSUME NEW c \in Callers, StartEnters(c) PROVE (LockHeld /\ StageInv /\ OneThread)'
  BY <1>3 DEF StartEnters
<1>4. ASSUME NEW c \in Callers, DestroyIdle(c) PROVE (LockHeld /\ StageInv /\ OneThread)'
  BY <1>4 DEF DestroyIdle
<1>5. ASSUME NEW c \in Callers, DestroyEnters(c) PROVE (LockHeld /\ StageInv /\ OneThread)'
  BY <1>5 DEF DestroyEnters
<1>6. ASSUME NEW c \in Callers, InitLibrary(c) PROVE (LockHeld /\ StageInv /\ OneThread)'
  <2>1. m_pServer = NoServer
    BY <1>6 DEF InitLibrary
  <2>2. m_pServer' # NoServer /\ m_pServer'.configured = 1
    <3>1. NewServer \in LibServer /\ NewServer.configured = 1
      BY DEF NewServer, LibServer
    <3>2. m_pServer' = NewServer
      BY <1>6, <2>1 DEF InitLibrary
    <3>3. QED
      BY <3>1, <3>2
  <2>3. QED
    BY <1>6, <2>1, <2>2 DEF InitLibrary
<1>7. ASSUME NEW c \in Callers, SpawnThread(c) PROVE (LockHeld /\ StageInv /\ OneThread)'
  BY <1>7 DEF SpawnThread
<1>8. ASSUME NEW c \in Callers, StopLibrary(c) PROVE (LockHeld /\ StageInv /\ OneThread)'
  <2>0. m_pServer # NoServer
    BY <1>8 DEF StopLibrary
  <2>1. m_pServer # NoServer /\ m_pServer' # NoServer
    <3>1. [m_pServer EXCEPT !.stopped = TRUE, !.running = FALSE] \in LibServer
      BY <2>0 DEF LibServer
    <3>2. QED
      BY <1>8, <2>0, <3>1 DEF StopLibrary
  <2>2. m_pServer'.configured = m_pServer.configured
    BY <1>8, <2>1 DEF StopLibrary, LibServer
  <2>3. QED
    BY <1>8, <2>1, <2>2 DEF StopLibrary
<1>9. ASSUME NEW c \in Callers, JoinThread(c) PROVE (LockHeld /\ StageInv /\ OneThread)'
  BY <1>9 DEF JoinThread
<1>10. ASSUME NEW c \in Callers, ReleaseLibrary(c) PROVE (LockHeld /\ StageInv /\ OneThread)'
  BY <1>10 DEF ReleaseLibrary
<1>11. ASSUME NEW t \in Threads, EnterRun(t) PROVE (LockHeld /\ StageInv /\ OneThread)'
  <2>0. m_pServer # NoServer /\ m_pServer' = [m_pServer EXCEPT !.running = TRUE]
    BY <1>11 DEF EnterRun
  <2>1. m_pServer # NoServer /\ m_pServer' # NoServer
    <3>1. m_pServer \in LibServer
      BY <2>0
    <3>2. [m_pServer EXCEPT !.running = TRUE] \in LibServer
      BY <3>1 DEF LibServer
    <3>3. QED
      BY <2>0, <3>2
  <2>2. m_pServer'.configured = m_pServer.configured
    BY <2>0, <2>1 DEF LibServer
  <2>3. QED
    BY <1>11, <2>1, <2>2 DEF EnterRun
<1>12. ASSUME NEW t \in Threads, LoopEnds(t) PROVE (LockHeld /\ StageInv /\ OneThread)'
  <2>0. m_pServer # NoServer /\ m_pServer' = [m_pServer EXCEPT !.stopped = FALSE]
    BY <1>12 DEF LoopEnds
  <2>1. m_pServer # NoServer /\ m_pServer' # NoServer
    <3>1. m_pServer \in LibServer
      BY <2>0
    <3>2. [m_pServer EXCEPT !.stopped = FALSE] \in LibServer
      BY <3>1 DEF LibServer
    <3>3. QED
      BY <2>0, <3>2
  <2>2. m_pServer'.configured = m_pServer.configured
    BY <2>0, <2>1 DEF LibServer
  <2>3. QED
    BY <1>12, <2>1, <2>2 DEF LoopEnds
<1>13. CASE UNCHANGED vars
  BY <1>13 DEF vars
<1>14. QED
  BY <1>1, <1>2, <1>3, <1>4, <1>5, <1>6, <1>7, <1>8, <1>9, <1>10, <1>11,
     <1>12, <1>13 DEF Next, Caller, Locked, Network

\* The inductive invariant: who holds the lock, and how far they have got.
THEOREM WormholeInvariant == Spec => []Inv
<1>1. Init => LockHeld /\ StageInv /\ OneThread
  BY WormholeAssumption, NoServerAssumption
     DEF Init, LockHeld, StageInv, OneThread, Stage, LockedPcs
<1>2. Inv /\ TypeOK' /\ [Next]_vars => Inv'
  BY StepKeepsInv
<1>3. QED
  BY <1>1, <1>2, WormholeTypeCorrect, PTL DEF Spec, Inv

\* No second network thread, however the calls of start and destroy interleave
\* (main.cpp:71, 112, 126).
THEOREM AtMostOneThread == Spec => []OneThread
<1>1. Inv => OneThread
  BY DEF Inv
<1>2. QED
  BY <1>1, WormholeInvariant, PTL

\* No network thread runs into an object that is not there, was freed, or was
\* configured twice (main.cpp:83, 126, 131).
THEOREM ThreadFindsLibrary == Spec => []ThreadHasLibrary
<1>1. Inv => ThreadHasLibrary
  BY WormholeAssumption
     DEF Inv, OneThread, StageInv, LockHeld, ThreadHasLibrary, Alive, TypeOK, Stage, LockedPcs
<1>2. QED
  BY <1>1, WormholeInvariant, PTL

-----------------------------------------------------------------------------
(* The join *)

\* A recorded thread has begun, and the one that is joined has been told to end.
JoinInv ==
    /\ g_network_thread # NoThread => thread[g_network_thread] # "unborn"
    /\ JoinedThreadToldToEnd

\* Only the holder of the lock is at the join, and it is after the stop.
LEMMA JoinStep == Inv /\ Inv' /\ JoinInv /\ [Next]_vars => JoinInv'
<1> USE WormholeAssumption, NoServerAssumption
<1> SUFFICES ASSUME Inv, Inv', JoinInv, [Next]_vars PROVE JoinInv'
  OBVIOUS
<1> USE DEF Inv, TypeOK, JoinInv, JoinedThreadToldToEnd, Alive
<1>1. ASSUME UNCHANGED <<g_network_thread, m_pServer, thread>>,
             \A c \in Callers : pc'[c] = "join" => pc[c] = "join"
      PROVE  JoinInv'
  BY <1>1
<1>2. ASSUME NEW c \in Callers,
             Call(c) \/ StartRefused(c) \/ StartEnters(c) \/ DestroyIdle(c) \/ DestroyEnters(c)
      PROVE  JoinInv'
  BY <1>1, <1>2 DEF Call, StartRefused, StartEnters, DestroyIdle, DestroyEnters, Goto,
                    Returns, Lock, globalVars, WaitingPcs
<1>3. ASSUME NEW c \in Callers, Locked(c)
      PROVE  \A d \in Callers : pc'[d] = "join" => c = d
  <2>1. pc[c] \in LockedPcs /\ g_wormhole_lock = c
    BY <1>3 DEF Locked, InitLibrary, SpawnThread, StopLibrary, JoinThread, ReleaseLibrary,
                LockedPcs, LockHeld
  <2>2. \A d \in Callers : d # c => pc'[d] = pc[d]
    BY <1>3 DEF Locked, InitLibrary, SpawnThread, StopLibrary, JoinThread, ReleaseLibrary,
                Goto, Returns
  <2> QED BY <2>1, <2>2 DEF LockHeld, LockedPcs
<1>4. ASSUME NEW c \in Callers, InitLibrary(c) PROVE JoinInv'
  <2>1. pc'[c] = "spawn"
    BY <1>4 DEF InitLibrary, Goto
  <2> QED BY <1>3, <1>4, <2>1 DEF InitLibrary, Locked, globalVars
<1>5. ASSUME NEW c \in Callers, SpawnThread(c) PROVE JoinInv'
  <2>1. pc'[c] = "out"
    BY <1>5 DEF SpawnThread, Goto, Returns
  <2> QED BY <1>3, <1>5, <2>1 DEF SpawnThread, Locked
<1>6. ASSUME NEW c \in Callers, StopLibrary(c) PROVE JoinInv'
  <2>1. g_wormhole_lock = c /\ Stage = "stop"
    BY <1>6 DEF StopLibrary, LockHeld, LockedPcs, Stage
  <2>2. m_pServer # NoServer /\ g_network_thread # NoThread
    BY <2>1 DEF StageInv
  <2>3. m_pServer' = [m_pServer EXCEPT !.stopped = TRUE, !.running = FALSE]
    BY <1>6, <2>2 DEF StopLibrary
  <2>4. m_pServer' # NoServer /\ m_pServer'.stopped
    <3>1. [m_pServer EXCEPT !.stopped = TRUE, !.running = FALSE] \in LibServer
      BY <2>2 DEF LibServer
    <3> QED BY <2>2, <2>3, <3>1 DEF LibServer
  <2> QED BY <1>6, <2>2, <2>4 DEF StopLibrary, globalVars
<1>7. ASSUME NEW c \in Callers, JoinThread(c) PROVE JoinInv'
  <2>1. pc'[c] = "release" /\ g_network_thread' = NoThread
    BY <1>7 DEF JoinThread, Goto
  <2> QED BY <1>3, <1>7, <2>1 DEF Locked
<1>8. ASSUME NEW c \in Callers, ReleaseLibrary(c) PROVE JoinInv'
  <2>1. pc'[c] = "out"
    BY <1>8 DEF ReleaseLibrary, Goto, Returns
  <2> QED BY <1>3, <1>8, <2>1 DEF ReleaseLibrary, Locked
<1>9. ASSUME NEW t \in Threads, EnterRun(t) PROVE JoinInv'
  <2>1. t = g_network_thread
    BY <1>9 DEF EnterRun, OneThread
  <2>2. /\ m_pServer # NoServer /\ m_pServer' = [m_pServer EXCEPT !.running = TRUE]
        /\ thread'[t] \in {"running", "ended"} /\ UNCHANGED <<g_network_thread, pc>>
    BY <1>9 DEF EnterRun, globalVars
  <2>3. m_pServer' # NoServer /\ m_pServer'.stopped = m_pServer.stopped
    <3>1. m_pServer \in LibServer
      BY <2>2
    <3>2. [m_pServer EXCEPT !.running = TRUE] \in LibServer
      BY <3>1 DEF LibServer
    <3> QED BY <2>2, <3>1, <3>2 DEF LibServer
  <2>4. thread[t] = "spawned"
    BY <1>9 DEF EnterRun
  <2> QED BY <2>1, <2>2, <2>3, <2>4
<1>10. ASSUME NEW t \in Threads, LoopEnds(t) PROVE JoinInv'
  <2>1. t = g_network_thread
    BY <1>10 DEF LoopEnds, OneThread
  <2> QED BY <1>10, <2>1 DEF LoopEnds, globalVars
<1>11. CASE UNCHANGED vars
  BY <1>1, <1>11 DEF vars, globalVars
<1> QED BY <1>2, <1>4, <1>5, <1>6, <1>7, <1>8, <1>9, <1>10, <1>11
        DEF Next, Caller, Locked, Network

\* No destroy waits for a thread that nobody told to end, or that can no longer
\* reach the stop: what is left for the lock to come free is that threads are
\* scheduled (main.cpp:107-110, 123-126).
THEOREM JoinsEnd == Spec => []JoinedThreadToldToEnd
<1>1. Init => JoinInv
  BY WormholeAssumption DEF Init, JoinInv, JoinedThreadToldToEnd
<1>2. Inv /\ Inv' /\ JoinInv /\ [Next]_vars => JoinInv'
  BY JoinStep
<1>3. JoinInv => JoinedThreadToldToEnd
  BY DEF JoinInv
<1> QED BY <1>1, <1>2, <1>3, WormholeInvariant, PTL DEF Spec

-----------------------------------------------------------------------------
(* The switch *)

Calls == [c \in Callers |-> CallOf(c)]

\* A label change within a call is invisible to the switch; another one changes
\* what its caller waits for.
LEMMA CallChanges ==
  ASSUME TypeOK, NEW c \in Callers, NEW label, Goto(c, label)
  PROVE  /\ Calls' = [Calls EXCEPT ![c] = CallOf(c)']
         /\ pc'[c] = label
<1>1. \A x \in Callers : x # c => CallOf(x)' = CallOf(x)
  BY DEF CallOf, Goto, TypeOK
<1>2. QED
  BY <1>1 DEF Calls, Goto, TypeOK

LEMMA SwitchStep == Inv /\ [Next]_vars => [Switch!Next]_(Switch!vars)
<1> USE WormholeAssumption
<1> SUFFICES ASSUME Inv, [Next]_vars PROVE Switch!Next \/ UNCHANGED Switch!vars
  OBVIOUS
<1> USE DEF Inv
<1> DEFINE Seen == <<g_wormhole_connected, Calls, ret>>
<1>0. UNCHANGED Seen => UNCHANGED Switch!vars
  BY DEF Switch!vars, Calls
<1>1. ASSUME NEW c \in Callers, Call(c) PROVE Switch!Next
  <2>1. PICK operation \in WaitingPcs : Goto(c, operation)
    BY <1>1 DEF Call
  <2>2. CallOf(c) = "none" /\ CallOf(c)' = operation
    BY <1>1, <2>1, CallChanges DEF Call, CallOf, StartPcs, DestroyPcs, WaitingPcs
  <2>3. Switch!Invoke(c, operation)
    BY <1>1, <2>1, <2>2, CallChanges DEF Call, Switch!Invoke, Calls, globalVars
  <2>4. QED
    BY <2>3 DEF Switch!Next, WaitingPcs
<1>2. ASSUME NEW c \in Callers, StartRefused(c) PROVE Switch!Next
  <2>1. CallOf(c) = "start" /\ CallOf(c)' = "none"
    BY <1>2, CallChanges DEF StartRefused, Returns, CallOf, StartPcs, DestroyPcs
  <2>2. g_wormhole_connected
    BY <1>2 DEF StartRefused, StageInv, Stage
  <2>3. Switch!StartFails(c)
    BY <1>2, <2>1, <2>2, CallChanges
       DEF StartRefused, Returns, Switch!StartFails, Switch!Return, Calls, globalVars
  <2>4. QED
    BY <2>3 DEF Switch!Next
<1>3. ASSUME NEW c \in Callers, StartEnters(c) PROVE UNCHANGED Seen
  <2>1. CallOf(c) = CallOf(c)'
    BY <1>3, CallChanges DEF StartEnters, CallOf, StartPcs, DestroyPcs
  <2>2. QED
    BY <1>3, <2>1, CallChanges DEF StartEnters, Calls
<1>4. ASSUME NEW c \in Callers, DestroyIdle(c) PROVE Switch!Next
  <2>1. CallOf(c) = "destroy" /\ CallOf(c)' = "none"
    BY <1>4, CallChanges DEF DestroyIdle, Returns, CallOf, StartPcs, DestroyPcs
  <2>2. Switch!Destroys(c)
    BY <1>4, <2>1, CallChanges
       DEF DestroyIdle, Returns, Switch!Destroys, Switch!Return, Calls, globalVars, TypeOK
  <2>3. QED
    BY <2>2 DEF Switch!Next
<1>5. ASSUME NEW c \in Callers, DestroyEnters(c) PROVE UNCHANGED Seen
  <2>1. CallOf(c) = CallOf(c)'
    BY <1>5, CallChanges DEF DestroyEnters, CallOf, StartPcs, DestroyPcs
  <2>2. QED
    BY <1>5, <2>1, CallChanges DEF DestroyEnters, Calls
<1>6. ASSUME NEW c \in Callers, InitLibrary(c) PROVE UNCHANGED Seen
  <2>1. CallOf(c) = CallOf(c)'
    BY <1>6, CallChanges DEF InitLibrary, CallOf, StartPcs, DestroyPcs
  <2>2. QED
    BY <1>6, <2>1, CallChanges DEF InitLibrary, Calls, globalVars
<1>7. ASSUME NEW c \in Callers, SpawnThread(c) PROVE Switch!Next
  <2>1. CallOf(c) = "start" /\ CallOf(c)' = "none"
    BY <1>7, CallChanges DEF SpawnThread, Returns, CallOf, StartPcs, DestroyPcs
  <2>2. ~g_wormhole_connected
    BY <1>7 DEF SpawnThread, StageInv, Stage, LockHeld, LockedPcs
  <2>3. Switch!StartSucceeds(c)
    BY <1>7, <2>1, <2>2, CallChanges
       DEF SpawnThread, Returns, Switch!StartSucceeds, Switch!Return, Calls
  <2>4. QED
    BY <2>3 DEF Switch!Next
<1>8. ASSUME NEW c \in Callers, StopLibrary(c) PROVE UNCHANGED Seen
  <2>1. CallOf(c) = CallOf(c)'
    BY <1>8, CallChanges DEF StopLibrary, CallOf, StartPcs, DestroyPcs
  <2>2. QED
    BY <1>8, <2>1, CallChanges DEF StopLibrary, Calls, globalVars
<1>9. ASSUME NEW c \in Callers, JoinThread(c) PROVE UNCHANGED Seen
  <2>1. CallOf(c) = CallOf(c)'
    BY <1>9, CallChanges DEF JoinThread, CallOf, StartPcs, DestroyPcs
  <2>2. QED
    BY <1>9, <2>1, CallChanges DEF JoinThread, Calls
<1>10. ASSUME NEW c \in Callers, ReleaseLibrary(c) PROVE Switch!Next
  <2>1. CallOf(c) = "destroy" /\ CallOf(c)' = "none"
    BY <1>10, CallChanges DEF ReleaseLibrary, Returns, CallOf, StartPcs, DestroyPcs
  <2>2. Switch!Destroys(c)
    BY <1>10, <2>1, CallChanges
       DEF ReleaseLibrary, Returns, Switch!Destroys, Switch!Return, Calls
  <2>3. QED
    BY <2>2 DEF Switch!Next
<1>11. ASSUME NEW t \in Threads, Network(t) PROVE UNCHANGED Seen
  BY <1>11 DEF Network, EnterRun, LoopEnds, globalVars, Calls, CallOf
<1>12. ASSUME UNCHANGED vars PROVE UNCHANGED Seen
  BY <1>12 DEF vars, globalVars, Calls, CallOf
<1>13. Switch!Next \/ UNCHANGED Seen
  BY <1>1, <1>2, <1>3, <1>4, <1>5, <1>6, <1>7, <1>8, <1>9, <1>10, <1>11, <1>12
     DEF Next, Caller, Locked
<1>14. QED
  BY <1>0, <1>13

\* start and destroy are atomic to those who call them: every behaviour of the
\* two threads and the lock is one of the switch (main.cpp:68-135).
THEOREM StartAndDestroyAreAtomic == Spec => ImplementsSwitch
<1>1. Init => Switch!Init
  BY DEF Init, Switch!Init, CallOf, StartPcs, DestroyPcs
<1>2. Inv /\ [Next]_vars => [Switch!Next]_(Switch!vars)
  BY SwitchStep
<1>3. QED
  BY <1>1, <1>2, WormholeInvariant, PTL DEF Spec, ImplementsSwitch, Switch!Spec

-----------------------------------------------------------------------------
(* Sends beside start and destroy *)

\* After a start has returned, and until a destroy enters, nobody is inside the
\* lock: another start is refused.
SendInv ==
    /\ SendTypeOK
    /\ started # {} => Stage = "free" /\ g_network_thread # NoThread
    /\ \A c \in started : send[c] # "freed"

\* Only the step that lets a destroyer out frees the object.
LEMMA OnlyReleaseFrees ==
    ASSUME Inv, Inv', Next, m_pServer # NoServer, m_pServer' = NoServer
    PROVE  Stage = "release"
<1> USE NoServerAssumption DEF Inv
<1>1. \A c \in Callers : ~Call(c) /\ ~StartRefused(c) /\ ~StartEnters(c)
                          /\ ~DestroyIdle(c) /\ ~DestroyEnters(c) /\ ~JoinThread(c)
  BY DEF Call, StartRefused, StartEnters, DestroyIdle, DestroyEnters, JoinThread
<1>2. \A c \in Callers : ~SpawnThread(c)
  BY DEF SpawnThread
<1>3. ASSUME NEW c \in Callers, InitLibrary(c) PROVE FALSE
  <2>1. pc[c] \in LockedPcs /\ pc[c] = "init"
    BY <1>3 DEF InitLibrary, LockedPcs
  <2>2. Stage = "init"
    BY <2>1, WormholeAssumption DEF LockHeld, Stage
  <2> QED BY <2>2 DEF StageInv
<1>4. ASSUME NEW c \in Callers, StopLibrary(c) PROVE FALSE
  <2>1. [m_pServer EXCEPT !.stopped = TRUE, !.running = FALSE] \in LibServer
    BY DEF TypeOK, LibServer
  <2> QED BY <1>4, <2>1 DEF StopLibrary
<1>5. ASSUME NEW t \in Threads, Network(t) PROVE FALSE
  <2>1. m_pServer \in LibServer
    BY DEF TypeOK
  <2>2. /\ [m_pServer EXCEPT !.running = TRUE] \in LibServer
        /\ [m_pServer EXCEPT !.stopped = FALSE] \in LibServer
    BY <2>1 DEF LibServer
  <2> QED BY <1>5, <2>2 DEF Network, EnterRun, LoopEnds
<1>6. PICK c \in Callers : ReleaseLibrary(c)
  BY <1>1, <1>2, <1>3, <1>4, <1>5 DEF Next, Caller, Locked
<1>7. pc[c] = "release" /\ pc[c] \in LockedPcs
  BY <1>6 DEF ReleaseLibrary, LockedPcs
<1> QED BY <1>7, WormholeAssumption DEF LockHeld, Stage

\* With the lock free and a thread recorded, a step that is not a destroy that
\* enters leaves them so.
LEMMA StaysOn ==
    ASSUME Inv, Next, Stage = "free", g_network_thread # NoThread,
           \A c \in Callers : ~DestroyEnters(c)
    PROVE  Stage' = "free" /\ g_network_thread' # NoThread
<1> USE WormholeAssumption DEF Inv
<1>1. g_wormhole_lock = NoCaller
  BY DEF Stage, TypeOK, LockHeld, LockedPcs, WaitingPcs
<1>2. \A c \in Callers : pc[c] \notin LockedPcs
  BY <1>1 DEF LockHeld
<1>3. \A c \in Callers : ~Locked(c) /\ ~StartEnters(c)
  BY <1>2 DEF Locked, InitLibrary, SpawnThread, StopLibrary, JoinThread, ReleaseLibrary,
              LockedPcs, StartEnters
<1>4. UNCHANGED <<g_wormhole_lock, g_network_thread>>
  BY <1>3 DEF Next, Caller, Call, StartRefused, DestroyIdle, Network, EnterRun, LoopEnds,
              globalVars
<1> QED BY <1>1, <1>4 DEF Stage

\* A step of a caller moves that caller only.
LEMMA CallerMoves ==
    ASSUME TypeOK, NEW x \in Callers, Caller(x), NEW c \in Callers, c # x
    PROVE  pc'[c] = pc[c]
<1>1. PICK label : Goto(x, label)
  BY DEF Caller, Call, StartRefused, StartEnters, DestroyIdle, DestroyEnters, Locked,
         InitLibrary, SpawnThread, StopLibrary, JoinThread, ReleaseLibrary, Returns
<1> QED BY <1>1 DEF Goto, TypeOK

\* A start that returns leaves the lock free and a thread recorded.
LEMMA StartLeavesOn ==
    ASSUME Inv, Next, NEW c \in Callers, StartReturns(c)
    PROVE  Stage' = "free" /\ g_network_thread' # NoThread
<1> USE WormholeAssumption DEF Inv
<1>1. pc[c] \in {"start", "spawn"} /\ pc'[c] = "out"
  BY DEF StartReturns
<1>2. StartRefused(c) \/ SpawnThread(c)
  <2>1. ASSUME NEW x \in Callers, Caller(x) PROVE x = c
    BY <1>1, <2>1, CallerMoves
  <2>2. \A t \in Threads : ~Network(t)
    BY <1>1 DEF Network, EnterRun, LoopEnds
  <2>3. Caller(c)
    BY <2>1, <2>2 DEF Next
  <2> QED BY <1>1, <2>3 DEF Caller, Call, StartEnters, DestroyIdle, DestroyEnters, Locked,
                 InitLibrary, StopLibrary, JoinThread, ReleaseLibrary, Goto, TypeOK
<1>3. CASE StartRefused(c)
  BY <1>3 DEF StartRefused, Stage, globalVars
<1>4. CASE SpawnThread(c)
  BY <1>4 DEF SpawnThread, Stage
<1> QED BY <1>2, <1>3, <1>4

\* A send lasts no longer than its object unless a destroy has entered since the
\* sender's start.
LEMMA SendStep ==
    ASSUME Inv, Inv', SendInv, [SendNext]_sendVars
    PROVE  SendInv'
<1> USE SendersAssumption DEF SendInv, SendTypeOK
<1>1. ASSUME Next, Observed,
             \A c \in Senders : StartReturns(c) => send[c] = "no"
      PROVE  SendInv'
  <2>1. send' \in [Senders -> {"no", "inside", "freed"}] /\ started' \subseteq Senders
    BY <1>1 DEF Observed
  <2>2. CASE \E c \in Callers : DestroyEnters(c)
    BY <1>1, <2>1, <2>2 DEF Observed
  <2>3. CASE \A c \in Callers : ~DestroyEnters(c)
    <3>1. started' = started \cup {c \in Senders : StartReturns(c)}
      BY <1>1, <2>3 DEF Observed
    <3>2. started' # {} => Stage' = "free" /\ g_network_thread' # NoThread
      BY <1>1, <2>3, <3>1, StaysOn, StartLeavesOn
    <3>3. ASSUME NEW c \in started' PROVE send'[c] # "freed"
      <4>1. CASE c \in started
        <5>1. ~(m_pServer # NoServer /\ m_pServer' = NoServer)
          BY <1>1, <4>1, OnlyReleaseFrees
        <5> QED BY <1>1, <4>1, <5>1 DEF Observed
      <4>2. CASE c \notin started
        <5>1. Stage' = "free" /\ g_network_thread' # NoThread
          BY <3>2, <3>3
        <5>2. m_pServer' # NoServer
          BY <5>1 DEF Inv, StageInv
        <5>3. StartReturns(c) /\ c \in Senders
          BY <3>1, <3>3, <4>2
        <5> QED BY <1>1, <5>2, <5>3 DEF Observed
      <4> QED BY <4>1, <4>2
    <3> QED BY <2>1, <3>2, <3>3
  <2> QED BY <2>2, <2>3
<1>2. ASSUME NEW c \in Senders, SendRefused(c) \/ SendEnters(c) \/ SendReturns(c)
      PROVE  SendInv'
  BY <1>2 DEF SendRefused, SendEnters, SendReturns, sendVars, vars, globalVars, Stage
<1>3. CASE UNCHANGED sendVars
  BY <1>3 DEF sendVars, vars, globalVars, Stage
<1>4. ASSUME NEW x \in Callers, CallStep(x) PROVE SendInv'
  <2>1. Next /\ Observed
    BY <1>4 DEF CallStep, Next
  <2>2. \A c \in Senders : StartReturns(c) => c = x
    BY <1>4, CallerMoves DEF CallStep, StartReturns, Inv, TypeOK
  <2> QED BY <1>1, <1>4, <2>1, <2>2 DEF CallStep
<1>5. ASSUME NEW t \in Threads, Network(t), Observed PROVE SendInv'
  <2>1. Next
    BY <1>5 DEF Next
  <2>2. \A c \in Senders : ~StartReturns(c)
    BY <1>5 DEF Network, EnterRun, LoopEnds, StartReturns
  <2> QED BY <1>1, <1>5, <2>1, <2>2
<1> QED BY <1>2, <1>3, <1>4, <1>5 DEF SendNext

\* From the return of its start until a destroy takes the lock, a sender finds the
\* object, and no send of its ends in a freed one (main.cpp:70-73, 120-131, 170).
THEOREM SendsFindLibrary == SendSpec => []SendsUntilDestroyed
<1>1. SendInit => Init /\ SendInv
  BY DEF SendInit, SendInv, SendTypeOK
<1>2. [SendNext]_sendVars => [Next]_vars
  BY DEF SendNext, sendVars, CallStep, SendRefused, SendEnters, SendReturns, Next
<1>3. Inv /\ Inv' /\ SendInv /\ [SendNext]_sendVars => SendInv'
  BY SendStep
<1>4. Inv /\ SendInv => SendsUntilDestroyed
  BY DEF Inv, StageInv, SendInv, SendsUntilDestroyed
<1>5. SendSpec => Spec
  BY <1>1, <1>2, PTL DEF SendSpec, Spec
<1> QED BY <1>1, <1>3, <1>4, <1>5, WormholeInvariant, PTL DEF SendSpec
=============================================================================
