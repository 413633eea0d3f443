------------------------------ MODULE Wormhole ------------------------------
(***************************************************************************)
(* start and destroy of src/main/main.cpp: the life of the network thread  *)
(* and of the transport library's object behind it.  Any thread may call   *)
(* them, at any time; g_wormhole_lock is held for the whole of a call, the *)
(* join included.  main itself calls start once.                           *)
(*                                                                         *)
(* The library is a binary; its calls are modelled by what the program     *)
(* sees of them.  FancyJingMsgInit creates the object unless there is one. *)
(* FancyJingMsgStop ends the loop of FancyJingMsgRun, and a loop that has  *)
(* not begun yet ends at once.  FancyJingMsgRelease frees the object.      *)
(***************************************************************************)
EXTENDS Integers

CONSTANTS
    Callers,    \* threads that call start and destroy
    Threads,    \* identities of network threads
    NoCaller, NoThread, NoServer

ASSUME WormholeAssumption == NoCaller \notin Callers /\ NoThread \notin Threads

VARIABLES
    g_wormhole_lock,        \* its holder
    g_network_thread,
    g_wormhole_connected,
    m_pServer,              \* the library's object
    thread,                 \* the state of each network thread
    pc, ret                 \* of each caller; ret is what its last call returned

globalVars == <<g_wormhole_lock, g_network_thread, g_wormhole_connected>>
vars == <<globalVars, m_pServer, thread, pc, ret>>

\* configured counts the tunnel lists added to the object, up to 2.
LibServer == [configured : 1 .. 2, stopped : BOOLEAN, running : BOOLEAN]
NewServer == [configured |-> 1, stopped |-> FALSE, running |-> FALSE]

ASSUME NoServerAssumption == NoServer \notin LibServer

\* Waiting for the lock, and inside it.
WaitingPcs == {"start", "destroy"}
LockedPcs  == {"init", "spawn", "stop", "join", "release"}

TypeOK ==
    /\ g_wormhole_lock \in Callers \cup {NoCaller}
    /\ g_network_thread \in Threads \cup {NoThread}
    /\ g_wormhole_connected \in BOOLEAN
    /\ m_pServer \in LibServer \cup {NoServer}
    /\ thread \in [Threads -> {"unborn", "spawned", "running", "ended"}]
    /\ pc \in [Callers -> {"out"} \cup WaitingPcs \cup LockedPcs]
    /\ ret \in [Callers -> {0, -1}]

Init ==
    /\ g_wormhole_lock = NoCaller
    /\ g_network_thread = NoThread
    /\ g_wormhole_connected = FALSE
    /\ m_pServer = NoServer
    /\ thread = [t \in Threads |-> "unborn"]
    /\ pc = [c \in Callers |-> "out"]
    /\ ret = [c \in Callers |-> 0]

Goto(c, label) == pc' = [pc EXCEPT ![c] = label]

Returns(c, result) == Goto(c, "out") /\ ret' = [ret EXCEPT ![c] = result]

Call(c) ==
    /\ pc[c] = "out"
    /\ \E operation \in WaitingPcs : Goto(c, operation)
    /\ UNCHANGED <<globalVars, m_pServer, thread, ret>>

\* std::lock_guard at the head of both functions.
Lock(c) == g_wormhole_lock = NoCaller /\ g_wormhole_lock' = c

-----------------------------------------------------------------------------
(* start *)

\* Mutant: the check of g_network_thread does not wait for the lock.
StartRefusedUnlocked(c) ==
    /\ pc[c] = "start"
    /\ g_network_thread # NoThread
    /\ Returns(c, -1)
    /\ UNCHANGED <<globalVars, m_pServer, thread>>

StartRefused(c) ==
    /\ pc[c] = "start" /\ g_wormhole_lock = NoCaller
    /\ g_network_thread # NoThread
    /\ Returns(c, -1)
    /\ UNCHANGED <<globalVars, m_pServer, thread>>

\* Mutant: the lock is taken for the start of the thread only.
StartEntersUnlocked(c) ==
    /\ pc[c] = "start"
    /\ g_network_thread = NoThread
    /\ Goto(c, "init")
    /\ UNCHANGED <<globalVars, m_pServer, thread, ret>>

StartEnters(c) ==
    /\ pc[c] = "start" /\ Lock(c)
    /\ g_network_thread = NoThread
    /\ Goto(c, "init")
    /\ UNCHANGED <<g_network_thread, g_wormhole_connected, m_pServer, thread, ret>>

\* FancyJingMsgInit, the tunnels of the configuration, and the callbacks: an
\* object that is there already is kept and given them once more.
InitLibrary(c) ==
    /\ pc[c] = "init"
    /\ m_pServer' = IF m_pServer = NoServer THEN NewServer
                    ELSE [m_pServer EXCEPT !.configured = 2]
    /\ Goto(c, "spawn")
    /\ UNCHANGED <<globalVars, thread, ret>>

\* new std::thread; the rest of start, which only lock holders can see.
SpawnThread(c) ==
    /\ pc[c] = "spawn"
    /\ \E t \in Threads :
          /\ thread[t] = "unborn"
          /\ thread' = [thread EXCEPT ![t] = "spawned"]
          /\ g_network_thread' = t
    /\ g_wormhole_connected' = TRUE
    /\ g_wormhole_lock' = NoCaller
    /\ Returns(c, 0)
    /\ UNCHANGED m_pServer

-----------------------------------------------------------------------------
(* destroy *)

DestroyIdle(c) ==
    /\ pc[c] = "destroy" /\ g_wormhole_lock = NoCaller
    /\ ~g_wormhole_connected
    /\ Returns(c, 0)
    /\ UNCHANGED <<globalVars, m_pServer, thread>>

DestroyEnters(c) ==
    /\ pc[c] = "destroy" /\ Lock(c)
    /\ g_wormhole_connected
    /\ Goto(c, "stop")
    /\ UNCHANGED <<g_network_thread, g_wormhole_connected, m_pServer, thread, ret>>

\* Mutant: destroy joins the thread without having it stopped.
StopForgotten(c) ==
    /\ pc[c] = "stop"
    /\ Goto(c, "join")
    /\ UNCHANGED <<globalVars, m_pServer, thread, ret>>

\* Mutant: the library is released before the thread is joined.
StopAndRelease(c) ==
    /\ pc[c] = "stop"
    /\ m_pServer' = NoServer
    /\ Goto(c, "join")
    /\ UNCHANGED <<globalVars, thread, ret>>

StopLibrary(c) ==
    /\ pc[c] = "stop"
    /\ m_pServer' = IF m_pServer = NoServer THEN m_pServer
                    ELSE [m_pServer EXCEPT !.stopped = TRUE, !.running = FALSE]
    /\ Goto(c, "join")
    /\ UNCHANGED <<globalVars, thread, ret>>

\* The join waits for the thread and holds the lock while it does.
JoinThread(c) ==
    /\ pc[c] = "join"
    /\ g_network_thread # NoThread => thread[g_network_thread] = "ended"
    /\ thread' = [thread EXCEPT ![g_network_thread] = "unborn"]
    /\ g_network_thread' = NoThread
    /\ Goto(c, "release")
    /\ UNCHANGED <<g_wormhole_lock, g_wormhole_connected, m_pServer, ret>>

\* FancyJingMsgRelease and the rest of destroy.
ReleaseLibrary(c) ==
    /\ pc[c] = "release"
    /\ m_pServer' = NoServer
    /\ g_wormhole_connected' = FALSE
    /\ g_wormhole_lock' = NoCaller
    /\ Returns(c, 0)
    /\ UNCHANGED <<g_network_thread, thread>>

-----------------------------------------------------------------------------
(* The network thread *)

\* FancyJingMsgRun dereferences the object; a running one returns at once.
EnterRun(t) ==
    /\ thread[t] = "spawned" /\ m_pServer # NoServer
    /\ thread' = [thread EXCEPT ![t] = IF m_pServer.running THEN "ended" ELSE "running"]
    /\ m_pServer' = [m_pServer EXCEPT !.running = TRUE]
    /\ UNCHANGED <<globalVars, pc, ret>>

\* The loop ends by FancyJingMsgStop only.
LoopEnds(t) ==
    /\ thread[t] = "running" /\ m_pServer # NoServer /\ m_pServer.stopped
    /\ thread' = [thread EXCEPT ![t] = "ended"]
    /\ m_pServer' = [m_pServer EXCEPT !.stopped = FALSE]
    /\ UNCHANGED <<globalVars, pc, ret>>

-----------------------------------------------------------------------------
Locked(c) == InitLibrary(c) \/ SpawnThread(c) \/ StopLibrary(c) \/ JoinThread(c)
             \/ ReleaseLibrary(c)

Caller(c) == Call(c) \/ StartRefused(c) \/ StartEnters(c) \/ DestroyIdle(c)
             \/ DestroyEnters(c) \/ Locked(c)

Network(t) == EnterRun(t) \/ LoopEnds(t)

Next == (\E c \in Callers : Caller(c)) \/ (\E t \in Threads : Network(t))

\* A thread inside the lock and a network thread are scheduled; std::mutex
\* promises nothing to those who wait for it.
Fairness ==
    /\ \A c \in Callers : WF_vars(Locked(c))
    /\ \A t \in Threads : WF_vars(Network(t))

Spec     == Init /\ [][Next]_vars
FairSpec == Spec /\ Fairness

-----------------------------------------------------------------------------
(* Properties *)

Alive(t) == thread[t] \in {"spawned", "running"}

\* At most one network thread is in the library or on its way there, and it is
\* the one that destroy would join (main.cpp:71, 112, 126).
OneThread ==
    \A t \in Threads : thread[t] # "unborn" => t = g_network_thread

\* A network thread finds the object that its start created: not one that was
\* freed, and not one that was given the tunnels twice (main.cpp:83, 126, 131).
ThreadHasLibrary ==
    (\E t \in Threads : Alive(t)) => m_pServer # NoServer /\ m_pServer.configured = 1

\* A destroy at its join waits for a thread that has ended, or that has been told
\* to: one that is still on its way into the library's loop must find the object
\* and, in it, the stop that came before (main.cpp:107-110, 123-126).
JoinedThreadToldToEnd ==
    \A c \in Callers : pc[c] = "join" =>
        /\ g_network_thread \in Threads
        /\ \/ thread[g_network_thread] = "ended"
           \/ Alive(g_network_thread) /\ m_pServer # NoServer /\ m_pServer.stopped

\* Whoever holds the lock lets it go: the join of a thread that has just been
\* started and has not reached the library's loop included (main.cpp:123-126).
LockComesFree ==
    \A c \in Callers : g_wormhole_lock = c ~> g_wormhole_lock # c

StartPcs   == {"start", "init", "spawn"}
DestroyPcs == {"destroy", "stop", "join", "release"}

CallOf(c) == CASE pc[c] \in StartPcs   -> "start"
               [] pc[c] \in DestroyPcs -> "destroy"
               [] OTHER                -> "none"

Switch == INSTANCE WormholeSwitch WITH
              on <- g_wormhole_connected, call <- [c \in Callers |-> CallOf(c)]

\* start and destroy take effect atomically, when they return: a start that
\* fails found the wormhole on, and a destroy leaves it off (main.cpp:68-135).
ImplementsSwitch == Switch!Spec
=============================================================================
