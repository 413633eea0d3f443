---------------------------- MODULE MCServerTap ----------------------------
(***************************************************************************)
(* TAP mode on addresses of 5 bits: 28 stands for 224.0.0.0 and 30 for     *)
(* 240.0.0.0.  Frames carry a MAC, which the table may claim as well.      *)
(***************************************************************************)
EXTENDS MCServer

\* 2 is found by its subnet 16..19 or by m2, 3 by its address or by m1.
MeshA == <<Info(2, 2, {Item(16, 3)}, "m2"), Info(3, 3, {}, "m1")>>
\* 3 has taken 16..19 over, and m2; 2 has no subnet and is dropped.
MeshB == <<Info(2, 2, NoSubnet, NoMac), Info(3, 3, {Item(16, 3)}, "m2")>>
OnlineC == <<Info(3, 17, {}, NoMac)>>

MCFrames == {Mesh(MeshA), Mesh(MeshB), Online(OnlineC),
             Message(MESSAGE_KEEPALIVE_TCP_RES, 1, "broken", <<>>)}

Ether(proto, ip, mac) == [proto |-> proto, ip |-> ip, mac |-> mac]
MCPackets == {Ether("ip", 17, "m1"), Ether("ip", 17, "m2"),
              Ether("ip", 28, "m1"), Ether("ip", 29, "m1"), Ether("ip", 31, "m1"),
              Ether("l2", 0, "m1"), Ether("other", 0, "m1")}
=============================================================================
