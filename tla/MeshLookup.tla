----------------------------- MODULE MeshLookup -----------------------------
(***************************************************************************)
(* The pure part of Server (src/main/server.cpp): which node a destination *)
(* belongs to, how a node table is built from a notification, and which    *)
(* kernel routes a node table asks for.                                    *)
(*                                                                         *)
(* Addresses have AddrBits bits instead of 32.  An address text is the     *)
(* address it denotes, or BadText when inet_addr cannot read it.  A subnet *)
(* text "net/len,net/len" is the set of its items [net, len]; the length   *)
(* of an item with no "/" is NoSlash, and a length above AddrBits is one   *)
(* that the code skips (32 < netmask; atoi of a negative text wraps there).*)
(***************************************************************************)
EXTENDS Integers, Sequences

CONSTANTS
    AddrBits,   \* bits of an address (32 in the code)
    NodeIDs,    \* node ids that notifications carry; 0 is what atoi makes of junk
    Macs,       \* destination MAC addresses of frames
    NoMac,      \* the empty MAC of a node learned from a keepalive
    UserID,     \* m_config.userID, this node's id (m_node_id)
    GatewayID,  \* m_gateway_id, argv[1] or 0
    IsGateWay,  \* m_config.gateWay: this node is the gateway
    TapMode     \* m_config.tapMode: frames of layer 2, not packets

ASSUME ConstantsAssumption ==
    /\ AddrBits \in Nat \ {0}
    /\ NodeIDs \subseteq Int
    /\ UserID \in Int /\ GatewayID \in Int
    /\ IsGateWay \in BOOLEAN /\ TapMode \in BOOLEAN
    /\ NoMac \notin Macs

BadText     == -1
NoSlash     == -1
BroadcastID == -1                   \* 0xFFFFFFFF: every node
IPs         == 0 .. 2^AddrBits - 1
AllOnes     == 2^AddrBits - 1       \* what inet_addr answers for junk
Texts       == IPs \cup {BadText}

Subnet  == [net : Texts, len : {NoSlash} \cup 0 .. AddrBits + 1]
NetInfo == [node_id : NodeIDs, virtual_ip : Texts, subnet : SUBSET Subnet,
            mac_addr : Macs \cup {NoMac}]
CpeNode == [node_ID : NodeIDs, node_virtual_IP : IPs,
            node_subnet : SUBSET Subnet, node_mac_addr : Macs \cup {NoMac}]
Route   == [net : IPs, len : 0 .. AddrBits]

-----------------------------------------------------------------------------
(* Addresses and masks *)

\* Mutant: INADDR_NONE taken for the signed -1.
InetAddrSigned(text) == text

InetAddr(text) == IF text = BadText THEN AllOnes ELSE text

Mask(ip, len) == ip - (ip % 2^(AddrBits - len))

\* meta.size() == 2 and netmask =< 32; every other item is skipped.
Usable(s) == s.len \in 0 .. AddrBits

-----------------------------------------------------------------------------
(* Node tables *)

\* The subnet text "0.0.0.0": handle_mesh_notify drops such a node.
NoSubnet == {[net |-> 0, len |-> NoSlash]}

\* nodeInfoList entry to m_cpes entry.
CpeOf(info) == [node_ID         |-> info.node_id,
                node_virtual_IP |-> InetAddr(info.virtual_ip),
                node_subnet     |-> info.subnet,
                node_mac_addr   |-> info.mac_addr]

MeshCpes(infos) == [i \in DOMAIN infos |-> CpeOf(infos[i])]

\* A keepalive answer names the online nodes: an id and an address each.
OnlineCpe(info) == [node_ID         |-> info.node_id,
                    node_virtual_IP |-> InetAddr(info.virtual_ip),
                    node_subnet     |-> {},
                    node_mac_addr   |-> NoMac]

OnlineCpes(infos) == [i \in DOMAIN infos |-> OnlineCpe(infos[i])]

-----------------------------------------------------------------------------
(* getNodeIDFromIP without the cache *)

\* Mutant: the address is compared without its mask.
InSubnetUnmasked(s, ip) == Usable(s) /\ ip = InetAddr(s.net)

InSubnet(s, ip) == Usable(s) /\ Mask(ip, s.len) = InetAddr(s.net)

Claims(node, ip, mac) ==
    \/ ip = node.node_virtual_IP
    \/ \E s \in node.node_subnet : InSubnet(s, ip)
    \/ TapMode /\ mac = node.node_mac_addr

Unclaimed == IF IsGateWay THEN 0 ELSE GatewayID

\* The loop over the table, from its first entry on, with its early return.
Answer(cpes, ip, mac) ==
    LET from[i \in DOMAIN cpes] ==
            IF Claims(cpes[i], ip, mac) THEN cpes[i].node_ID
            ELSE IF i + 1 \in DOMAIN cpes THEN from[i + 1] ELSE Unclaimed
    IN  IF cpes = <<>> THEN Unclaimed ELSE from[1]

\* Mutant: the gateway's answer is remembered too.
CacheableNonzero(id) == id # 0

\* Only the answer of a claiming node is remembered.
Cacheable(id) == id # 0 /\ id # GatewayID

-----------------------------------------------------------------------------
(* Kernel routes *)

\* The kernel refuses a network with host bits set (EINVAL of SIOCADDRT).
KernelAccepts(r) == Mask(r.net, r.len) = r.net

Steers(r, ip) == Mask(ip, r.len) = r.net

\* Mutant: the host bits are cleared for the kernel, and not for the lookup.
RouteToMasked(s) == [net |-> Mask(InetAddr(s.net), s.len), len |-> s.len]

RouteTo(s) == [net |-> InetAddr(s.net), len |-> s.len]

\* Routes that add_route_for_nodes and del_route_for_nodes go through.
RoutesOf(cpes) ==
    {r \in Route :
        /\ KernelAccepts(r)
        /\ \E i \in DOMAIN cpes :
              /\ cpes[i].node_ID # UserID
              /\ \E s \in cpes[i].node_subnet : Usable(s) /\ r = RouteTo(s)}

\* What atoi reads of a network: the number before its first dot.
FirstNumber(net) == IF net = BadText THEN 0 ELSE net \div 2^(AddrBits - AddrBits \div 4)

\* The routes that a split() whose strtok cursor another thread moves can make of
\* the items of the texts in use.  A token may be any piece of them, or junk from
\* a text already freed: a length is read as a network, a network as a length.
MixedRoutes(items) ==
    LET nets == {InetAddr(s.net) : s \in items} \cup {s.len : s \in items} \cup {AllOnes}
        lens == {s.len : s \in items} \cup {FirstNumber(s.net) : s \in items} \cup {0}
    IN  {r \in Route : KernelAccepts(r) /\ r.net \in nets /\ r.len \in lens}
=============================================================================
