--------------------------- MODULE WormholeSwitch ---------------------------
(***************************************************************************)
(* What start and destroy of src/main/main.cpp promise the threads that    *)
(* call them: the wormhole is a switch.  A call takes effect in one step,  *)
(* when it returns; starting what is on fails, destroying what is off does *)
(* nothing.                                                                *)
(***************************************************************************)
EXTENDS Integers

CONSTANT Callers

VARIABLES
    on,
    call,    \* what each caller is waiting for
    ret      \* what its last call returned

vars == <<on, call, ret>>

Init ==
    /\ on = FALSE
    /\ call = [c \in Callers |-> "none"]
    /\ ret = [c \in Callers |-> 0]

Invoke(c, operation) ==
    /\ call[c] = "none"
    /\ call' = [call EXCEPT ![c] = operation]
    /\ UNCHANGED <<on, ret>>

Return(c, operation, result) ==
    /\ call[c] = operation
    /\ call' = [call EXCEPT ![c] = "none"]
    /\ ret' = [ret EXCEPT ![c] = result]

StartSucceeds(c) == ~on /\ on' = TRUE /\ Return(c, "start", 0)
StartFails(c)    == on /\ Return(c, "start", -1) /\ UNCHANGED on
Destroys(c)      == on' = FALSE /\ Return(c, "destroy", 0)

Next == \E c \in Callers :
            \/ \E operation \in {"start", "destroy"} : Invoke(c, operation)
            \/ StartSucceeds(c) \/ StartFails(c) \/ Destroys(c)

Spec == Init /\ [][Next]_vars
=============================================================================
