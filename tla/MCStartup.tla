------------------------------ MODULE MCStartup ------------------------------
(***************************************************************************)
(* TAP nodes with every kind of MAC text and device name, a TUN node, and  *)
(* a file that does not parse.                                             *)
(***************************************************************************)
EXTENDS Startup

Tap(named, mac) == [parses |-> TRUE, tapMode |-> TRUE, named |-> named, macAddr |-> mac]

MCFiles ==
    {Tap(named, mac) : named \in BOOLEAN, mac \in {ZeroMac, NoMac}}
    \cup {Tap(TRUE, mac) : mac \in Macs \cup {RefusedMac, BadMac}}
    \cup {[Tap(TRUE, NoMac) EXCEPT !.tapMode = FALSE], [Tap(TRUE, NoMac) EXCEPT !.parses = FALSE]}
=============================================================================
