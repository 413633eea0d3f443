---------------------------- MODULE MCServerTun ----------------------------
(***************************************************************************)
(* TUN mode on addresses of 3 bits.                                        *)
(***************************************************************************)
EXTENDS MCServer

\* This node's own subnet, and 2 with the upper half of the addresses.
MeshA == <<Info(1, 1, {Item(2, 2)}, NoMac), Info(2, 2, {Item(4, 1)}, NoMac)>>
\* 2 has no subnet and is dropped; 3 takes 6..7 from it, and has an address text
\* that reads as 7, a net with host bits and an item without length.
MeshB == <<Info(2, 2, NoSubnet, NoMac),
           Info(3, BadText, {Item(6, 2), Item(5, 2), Item(2, NoSlash)}, NoMac)>>
\* 2 is online at an address that the meshes place elsewhere.
OnlineC == <<Info(2, 6, {}, NoMac)>>

MCFrames == {Mesh(MeshA), Mesh(MeshB), Online(OnlineC)} \cup DroppedFrames

Pkt(ip) == [proto |-> "ip", ip |-> ip, mac |-> "m1"]
MCPackets == {Pkt(3), Pkt(6)}
=============================================================================
