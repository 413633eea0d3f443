---------------------------- MODULE WormholeSend ----------------------------
(***************************************************************************)
(* The send path of src/main/main.cpp beside start and destroy.  send_cb   *)
(* calls FancyJingMsgSendToPeer without g_wormhole_lock: the library looks *)
(* whether there is an object and calls into it in the sender's thread,    *)
(* while another thread may be freeing it.  A thread does not send while   *)
(* it is in a call of start or destroy.                                    *)
(***************************************************************************)
EXTENDS Wormhole

CONSTANT Senders    \* of the callers, those that send

ASSUME SendersAssumption == Senders \subseteq Callers

VARIABLES
    send,       \* of each sender: no send, one inside the object, or inside one
                \* that was freed under it
    started     \* history: senders whose start has returned, with no destroy since

sendVars == <<vars, send, started>>

SendTypeOK ==
    /\ send \in [Senders -> {"no", "inside", "freed"}]
    /\ started \subseteq Senders

SendInit == Init /\ send = [c \in Senders |-> "no"] /\ started = {}

\* Without an object the library answers -1, which send_cb ignores: the packet is
\* lost and nothing changes.
SendRefused(c) ==
    /\ pc[c] = "out" /\ send[c] = "no" /\ m_pServer = NoServer
    /\ UNCHANGED sendVars

SendEnters(c) ==
    /\ pc[c] = "out" /\ send[c] = "no" /\ m_pServer # NoServer
    /\ send' = [send EXCEPT ![c] = "inside"]
    /\ UNCHANGED <<vars, started>>

\* What a send in a freed object does is undefined; here it returns.
SendReturns(c) ==
    /\ send[c] # "no"
    /\ send' = [send EXCEPT ![c] = "no"]
    /\ UNCHANGED <<vars, started>>

StartReturns(c) == pc[c] \in {"start", "spawn"} /\ pc'[c] = "out"

\* What the other steps do to the sends.
Observed ==
    /\ send' = IF m_pServer # NoServer /\ m_pServer' = NoServer
               THEN [c \in Senders |-> IF send[c] = "no" THEN "no" ELSE "freed"]
               ELSE send
    /\ started' = IF \E c \in Callers : DestroyEnters(c) THEN {}
                  ELSE started \cup {c \in Senders : StartReturns(c)}

CallStep(c) == (c \in Senders => send[c] = "no") /\ Caller(c) /\ Observed

SendNext ==
    \/ \E c \in Callers : CallStep(c)
    \/ \E t \in Threads : Network(t) /\ Observed
    \/ \E c \in Senders : SendRefused(c) \/ SendEnters(c) \/ SendReturns(c)

SendFairness ==
    /\ \A c \in Callers : WF_sendVars(Locked(c) /\ Observed)
    /\ \A t \in Threads : WF_sendVars(Network(t) /\ Observed)

SendSpec     == SendInit /\ [][SendNext]_sendVars
FairSendSpec == SendSpec /\ SendFairness

-----------------------------------------------------------------------------
(* Properties *)

\* From the return of its start, whatever start answered, until a destroy takes
\* the lock, a sender finds the object, and no send of its ends in a freed one: a
\* start that answers -1 has waited for the destroy before it (main.cpp:70-73,
\* 120-131, 170).
SendsUntilDestroyed ==
    \A c \in started : m_pServer # NoServer /\ send[c] # "freed"
=============================================================================
