------------------------------- MODULE Server -------------------------------
(***************************************************************************)
(* The running Server of src/main/server.cpp.  Two threads call it and     *)
(* nothing locks what they share:                                          *)
(*                                                                         *)
(*  - the main thread (m_loop.run) reads a packet from the tun/tap device, *)
(*    looks its node up in m_ip2nodeid_cache and m_cpes, and sends it;     *)
(*  - the network thread (FancyJingMsgRun) delivers session messages, which*)
(*    replace m_cpes and, for a mesh notification, the kernel routes.      *)
(*                                                                         *)
(* A program counter value means that its operation is in progress and     *)
(* takes effect when the counter leaves it.  Two unsynchronised operations *)
(* in progress at once are a data race: the outcomes are any the memory    *)
(* could produce, or a crash.                                              *)
(***************************************************************************)
EXTENDS MeshLookup

CONSTANTS
    OnlyAcc,      \* m_config.onlyAcc: everything goes to the gateway
    Packets,      \* what the device hands over: [proto, ip, mac]
    Frames,       \* session messages the control plane sends
    RouteFaults   \* the kernel may refuse to add or to delete a good route

VARIABLES
    m_cpes, m_ip2nodeid_cache, nodeInfoList,
    kroutes,      \* the kernel's routes through the device
    undeleted,    \* those it has refused to delete and not deleted since
    unadded,      \* those it refused to add in the last update
    proc,         \* running, exited (exit(-1)) or crashed (undefined behaviour)
    mainPc, packet, destID,
    scanRaced,    \* the scan in progress overlapped a writer or another strtok
    netPc, pending

kernelVars == <<kroutes, undeleted, unadded>>
tableVars  == <<m_cpes, nodeInfoList, kernelVars>>
mainVars  == <<mainPc, packet, destID>>
netVars   == <<netPc, pending>>
vars == <<tableVars, m_ip2nodeid_cache, proc, mainVars, scanRaced, netVars>>

Protos == {"ip", "l2", "other"}   \* IPv4; ARP, RARP, IPX, PPPoE; the rest
Packet == [proto : Protos, ip : IPs, mac : Macs]

UInt16 == 0 .. 65535

\* A session message as its parsers see it.  meta is what they find inside:
\* nothing, a list, or bytes they cannot parse to the end.
Frame == [len : Nat, pack_len : UInt16, pack_uri : UInt16,
          parses : BOOLEAN, meta : {"empty", "list", "broken"},
          nodes : Seq(NetInfo)]

ASSUME ServerAssumption ==
    /\ OnlyAcc \in BOOLEAN /\ RouteFaults \in BOOLEAN
    /\ TapMode => AddrBits >= 4
    /\ Packets \subseteq Packet
    /\ Frames \subseteq Frame

NoPacket == [proto |-> "none"]
NoCache  == [ip \in {} |-> 0]

AnyID == NodeIDs \cup {0, GatewayID}

MainPcs == {"idle", "find", "get", "scan", "store", "send"}
NetPcs  == {"idle", "clearCache", "fill", "delRoutes", "initMeshCpes",
            "addRoutes", "initOnlineCpes"}

\* Main is inside the cache; the network thread is inside m_cpes or split().
UsingCache == mainPc \in {"find", "get", "store"}
SplitBusy  == {"delRoutes", "addRoutes"}
TableBusy  == SplitBusy \cup {"initMeshCpes", "initOnlineCpes"}

TypeOK ==
    /\ m_cpes \in Seq(CpeNode)
    /\ DOMAIN m_ip2nodeid_cache \subseteq IPs
    /\ \A ip \in DOMAIN m_ip2nodeid_cache : m_ip2nodeid_cache[ip] \in AnyID
    /\ nodeInfoList \in Seq(NetInfo)
    /\ kroutes \subseteq Route /\ undeleted \subseteq Route /\ unadded \subseteq Route
    /\ proc \in {"running", "exited", "crashed"}
    /\ mainPc \in MainPcs
    /\ IF mainPc = "idle" THEN packet = NoPacket ELSE packet \in Packet
    /\ destID \in AnyID \cup (IF mainPc = "send" THEN {BroadcastID} ELSE {})
    /\ scanRaced \in BOOLEAN
    /\ netPc \in NetPcs
    /\ pending \in Seq(NetInfo)

\* The constructor: nodeInfoList is empty until the first notification, so the
\* table and the routes are too.
Init ==
    /\ m_cpes = <<>> /\ nodeInfoList = <<>>
    /\ kroutes = {} /\ undeleted = {} /\ unadded = {}
    /\ m_ip2nodeid_cache = NoCache
    /\ proc = "running"
    /\ mainPc = "idle" /\ packet = NoPacket /\ destID = 0 /\ scanRaced = FALSE
    /\ netPc = "idle" /\ pending = <<>>

-----------------------------------------------------------------------------
(* std::map and what is left of one that two threads changed at once *)

Put(cache, ip, id) ==
    [x \in DOMAIN cache \cup {ip} |-> IF x = ip THEN id ELSE cache[x]]

Torn(cache) == {[x \in S |-> cache[x]] : S \in SUBSET DOMAIN cache}

CacheRaced == netPc = "clearCache"

-----------------------------------------------------------------------------
(* Main thread *)

MulticastBase == 7 * 2^(AddrBits - 3)    \* 0xE0000000
ReservedBase  == 15 * 2^(AddrBits - 4)   \* 0xF0000000

NeedsLookup(p) == ~TapMode \/ (p.proto = "ip" /\ p.ip < MulticastBase)

\* The destination of a frame getDestIDFromTapPacket does not look up.
FloodDest(p) ==
    IF p.proto = "other" \/ (p.proto = "ip" /\ p.ip \in {MulticastBase, ReservedBase})
    THEN 0 ELSE BroadcastID

\* Mutant: handle_packet_from_dev does not look at onlyAcc.
ReadPacketAlwaysLooksUp ==
    /\ mainPc = "idle"
    /\ \E p \in Packets :
          /\ packet' = p
          /\ IF NeedsLookup(p) THEN destID' = 0 /\ mainPc' = "find"
             ELSE destID' = FloodDest(p) /\ mainPc' = "send"
    /\ UNCHANGED <<tableVars, m_ip2nodeid_cache, proc, netVars>>

\* on_read_tun_tap got a packet; handle_packet_from_dev dispatches it.
ReadPacket ==
    /\ mainPc = "idle"
    /\ \E p \in Packets :
          /\ packet' = p
          /\ \/ /\ OnlyAcc
                /\ destID' = GatewayID /\ mainPc' = "send"
             \/ /\ ~OnlyAcc /\ NeedsLookup(p)
                /\ destID' = 0 /\ mainPc' = "find"
             \/ /\ ~OnlyAcc /\ ~NeedsLookup(p)
                /\ destID' = FloodDest(p) /\ mainPc' = "send"
    /\ UNCHANGED <<tableVars, m_ip2nodeid_cache, proc, netVars>>

\* A failed read, or one of fewer than 20 bytes.
ReadFails ==
    /\ mainPc = "idle"
    /\ proc' = "exited"
    /\ UNCHANGED <<tableVars, m_ip2nodeid_cache, mainVars, netVars>>

\* Mutant: the lookup goes straight to operator[].
CacheFindByIndex ==
    /\ mainPc = "find"
    /\ mainPc' = "get"
    /\ UNCHANGED <<tableVars, m_ip2nodeid_cache, proc, packet, destID, netVars>>

CacheFind ==
    /\ mainPc = "find"
    /\ \/ /\ packet.ip \in DOMAIN m_ip2nodeid_cache \/ CacheRaced
          /\ mainPc' = "get"
       \/ /\ packet.ip \notin DOMAIN m_ip2nodeid_cache \/ CacheRaced
          /\ mainPc' = "scan"
    /\ UNCHANGED <<tableVars, m_ip2nodeid_cache, proc, packet, destID, netVars>>

\* operator[] after find: it inserts 0 when the entry went away in between.
CacheGet ==
    /\ mainPc = "get"
    /\ \/ /\ packet.ip \in DOMAIN m_ip2nodeid_cache
          /\ destID' = m_ip2nodeid_cache[packet.ip]
          /\ UNCHANGED m_ip2nodeid_cache
       \/ /\ packet.ip \notin DOMAIN m_ip2nodeid_cache
          /\ destID' = 0
          /\ m_ip2nodeid_cache' = Put(m_ip2nodeid_cache, packet.ip, 0)
       \/ /\ CacheRaced
          /\ destID' \in {m_ip2nodeid_cache[x] : x \in DOMAIN m_ip2nodeid_cache} \cup {0}
          /\ m_ip2nodeid_cache' \in Torn(m_ip2nodeid_cache)
    /\ mainPc' = "store"
    /\ UNCHANGED <<tableVars, proc, packet, netVars>>

ScanTable ==
    /\ mainPc = "scan"
    /\ \/ /\ ~scanRaced
          /\ destID' = Answer(m_cpes, packet.ip, packet.mac)
       \/ /\ scanRaced
          /\ destID' \in AnyID
    /\ mainPc' = "store"
    /\ UNCHANGED <<tableVars, m_ip2nodeid_cache, proc, packet, netVars>>

\* The caller of getNodeIDFromIP remembers the answer of a node.
StoreAnswer ==
    /\ mainPc = "store"
    /\ \/ /\ Cacheable(destID) /\ packet.ip \notin DOMAIN m_ip2nodeid_cache
          /\ m_ip2nodeid_cache' = Put(m_ip2nodeid_cache, packet.ip, destID)
       \/ /\ ~Cacheable(destID) \/ packet.ip \in DOMAIN m_ip2nodeid_cache \/ CacheRaced
          /\ UNCHANGED m_ip2nodeid_cache
       \/ /\ Cacheable(destID) /\ CacheRaced
          /\ m_ip2nodeid_cache' \in Torn(Put(m_ip2nodeid_cache, packet.ip, destID))
    /\ mainPc' = "send"
    /\ UNCHANGED <<tableVars, proc, packet, destID, netVars>>

\* m_send_callback; back to the poll loop.
SendPacket ==
    /\ mainPc = "send"
    /\ mainPc' = "idle" /\ packet' = NoPacket /\ destID' = 0
    /\ UNCHANGED <<tableVars, m_ip2nodeid_cache, proc, netVars>>

-----------------------------------------------------------------------------
(* Network thread *)

MESSAGE_KEEPALIVE_TCP_RES == 6
MESSAGE_KEEPALIVE_UDP_RES == 8
MESSAGE_CPE_CHANGE_NOTIFY == 18

\* The length reaches handle_session_data_recv as a uint16_t.
WellFramed(f) == LET len == f.len % 65536
                 IN  len > 4 /\ len = f.pack_len + 4

\* What gets past the early returns of the handlers.
IsMeshNotify(f) ==
    /\ WellFramed(f) /\ f.pack_uri = MESSAGE_CPE_CHANGE_NOTIFY
    /\ f.parses /\ f.meta = "list"

\* The result of parsing an online list is not looked at.
IsOnlineNotify(f) ==
    /\ WellFramed(f)
    /\ f.pack_uri \in {MESSAGE_KEEPALIVE_TCP_RES, MESSAGE_KEEPALIVE_UDP_RES}
    /\ f.parses /\ f.meta # "empty"

RecvMeshNotify ==
    /\ netPc = "idle"
    /\ \E f \in Frames : IsMeshNotify(f) /\ pending' = f.nodes
    /\ netPc' = "clearCache"
    /\ UNCHANGED <<tableVars, m_ip2nodeid_cache, proc, mainVars>>

RecvOnlineNotify ==
    /\ netPc = "idle"
    /\ \E f \in Frames : IsOnlineNotify(f) /\ pending' = f.nodes
    /\ netPc' = "initOnlineCpes"
    /\ UNCHANGED <<tableVars, m_ip2nodeid_cache, proc, mainVars>>

\* A message that an early return drops.
RecvDropped ==
    /\ netPc = "idle"
    /\ \E f \in Frames : ~IsMeshNotify(f) /\ ~IsOnlineNotify(f)
    /\ UNCHANGED <<tableVars, m_ip2nodeid_cache, proc, mainVars, netVars>>

\* A packet from a peer goes to the device; the process ends if it cannot.
RecvRouteData ==
    /\ netPc = "idle"
    /\ proc' \in {"running", "exited"}
    /\ UNCHANGED <<tableVars, m_ip2nodeid_cache, mainVars, netVars>>

\* Mutant: m_ip2nodeid_cache is not cleared.
ClearCacheForgotten ==
    /\ netPc = "clearCache"
    /\ nodeInfoList' = <<>>
    /\ netPc' = "fill"
    /\ UNCHANGED <<m_cpes, kernelVars, m_ip2nodeid_cache, proc, mainVars, pending>>

\* handle_mesh_notify, call by call.
ClearCache ==
    /\ netPc = "clearCache"
    /\ \/ m_ip2nodeid_cache' = NoCache
       \/ UsingCache /\ m_ip2nodeid_cache' \in Torn(m_ip2nodeid_cache)
    /\ nodeInfoList' = <<>>
    /\ netPc' = "fill"
    /\ UNCHANGED <<m_cpes, kernelVars, proc, mainVars, pending>>

\* Mutant: a dropped node does not advance the loop.
PushNodeInfoStuck ==
    /\ netPc = "fill" /\ pending # <<>>
    /\ IF Head(pending).subnet = NoSubnet
       THEN UNCHANGED <<nodeInfoList, pending>>
       ELSE /\ nodeInfoList' = Append(nodeInfoList, Head(pending))
            /\ pending' = Tail(pending)
    /\ UNCHANGED <<m_cpes, kernelVars, m_ip2nodeid_cache, proc, mainVars, netPc>>

PushNodeInfo ==
    /\ netPc = "fill" /\ pending # <<>>
    /\ nodeInfoList' = IF Head(pending).subnet = NoSubnet
                       THEN nodeInfoList
                       ELSE Append(nodeInfoList, Head(pending))
    /\ pending' = Tail(pending)
    /\ UNCHANGED <<m_cpes, kernelVars, m_ip2nodeid_cache, proc, mainVars, netPc>>

NodeInfoFilled ==
    /\ netPc = "fill" /\ pending = <<>>
    /\ netPc' = "delRoutes"
    /\ UNCHANGED <<tableVars, m_ip2nodeid_cache, proc, mainVars, pending>>

\* Mutant: the table is rebuilt before the routes are deleted.
DelRoutesOfNewTable ==
    /\ netPc = "delRoutes"
    /\ kroutes' = kroutes \ RoutesOf(MeshCpes(nodeInfoList))
    /\ netPc' = "initMeshCpes"
    /\ UNCHANGED <<m_cpes, nodeInfoList, undeleted, unadded, m_ip2nodeid_cache, proc, mainVars,
                   pending>>

\* A scan may hold a text of any table that was replaced under it.
ItemsInUse ==
    UNION ((UNION {{f.nodes[i].subnet : i \in DOMAIN f.nodes} : f \in Frames}) \ {NoSubnet})

\* The routes that one update asks of the kernel in vain: ioctl fails, route_add_net
\* and route_del_net return -1, and the loops go on to the next route.
Refusals(routes) == IF RouteFaults THEN SUBSET routes ELSE {{}}

\* The routes of the table that is about to be replaced.
DelRoutes ==
    /\ netPc = "delRoutes"
    /\ \/ \E R \in Refusals(kroutes \cap RoutesOf(m_cpes)) :
             /\ kroutes' = kroutes \ (RoutesOf(m_cpes) \ R)
             /\ undeleted' = (undeleted \ RoutesOf(m_cpes)) \cup R
       \/ /\ mainPc = "scan"
          /\ \E R \in SUBSET MixedRoutes(ItemsInUse) : kroutes' = kroutes \ R
          /\ UNCHANGED undeleted
    /\ netPc' = "initMeshCpes"
    /\ UNCHANGED <<m_cpes, nodeInfoList, unadded, m_ip2nodeid_cache, proc, mainVars,
                   pending>>

\* Mutant: the old table is not cleared first.
InitMeshCpesAppending ==
    /\ netPc = "initMeshCpes"
    /\ m_cpes' = m_cpes \o MeshCpes(nodeInfoList)
    /\ netPc' = "addRoutes"
    /\ UNCHANGED <<nodeInfoList, kernelVars, m_ip2nodeid_cache, proc, mainVars, pending>>

InitMeshCpes ==
    /\ netPc = "initMeshCpes"
    /\ m_cpes' = MeshCpes(nodeInfoList)
    /\ netPc' = "addRoutes"
    /\ UNCHANGED <<nodeInfoList, kernelVars, m_ip2nodeid_cache, proc, mainVars, pending>>

\* A route that is there already is refused too, and stays.
AddRoutes ==
    /\ netPc = "addRoutes"
    /\ \/ \E R \in Refusals(RoutesOf(m_cpes) \ kroutes) :
             /\ kroutes' = kroutes \cup (RoutesOf(m_cpes) \ R)
             /\ unadded' = R
       \/ /\ mainPc = "scan"
          /\ \E R \in SUBSET MixedRoutes(ItemsInUse) : kroutes' = kroutes \cup R
          /\ UNCHANGED unadded
    /\ netPc' = "idle"
    /\ UNCHANGED <<m_cpes, nodeInfoList, undeleted, m_ip2nodeid_cache, proc, mainVars,
                   pending>>

\* Mutant: the routes of the replaced table are deleted and none is added.
InitOnlineCpesDroppingRoutes ==
    /\ netPc = "initOnlineCpes"
    /\ kroutes' = kroutes \ RoutesOf(m_cpes)
    /\ m_cpes' = OnlineCpes(pending)
    /\ netPc' = "idle" /\ pending' = <<>>
    /\ UNCHANGED <<undeleted, unadded, nodeInfoList, m_ip2nodeid_cache, proc, mainVars>>

\* handle_online_cpes_notify: the cache and the routes stay as they are.
InitOnlineCpes ==
    /\ netPc = "initOnlineCpes"
    /\ m_cpes' = OnlineCpes(pending)
    /\ netPc' = "idle" /\ pending' = <<>>
    /\ UNCHANGED <<nodeInfoList, kernelVars, m_ip2nodeid_cache, proc, mainVars>>

-----------------------------------------------------------------------------
(* The process *)

\* Undefined behaviour that ends the process.
RaceCrash ==
    /\ (UsingCache /\ CacheRaced) \/ (mainPc = "scan" /\ scanRaced)
    /\ proc' = "crashed"
    /\ UNCHANGED <<tableVars, m_ip2nodeid_cache, mainVars, netVars>>

\* The kernel drops the routes of a device whose process is gone.
Stopped == proc # "running" /\ UNCHANGED vars

MainRun == CacheFind \/ CacheGet \/ ScanTable \/ StoreAnswer \/ SendPacket
Main    == ReadPacket \/ ReadFails \/ MainRun

NetRun  == ClearCache \/ PushNodeInfo \/ NodeInfoFilled \/ DelRoutes
           \/ InitMeshCpes \/ AddRoutes \/ InitOnlineCpes
Net     == RecvMeshNotify \/ RecvOnlineNotify \/ RecvDropped \/ RecvRouteData \/ NetRun

\* A scan is raced as soon as both threads are inside the table or split().
MarkRace ==
    scanRaced' = (mainPc' = "scan" /\ (scanRaced \/ netPc' \in TableBusy))

Step == proc = "running" /\ (Main \/ Net \/ RaceCrash) /\ MarkRace
Next == Step \/ Stopped

\* The network thread is scheduled, and no call of an update blocks for ever.
Fairness == WF_vars(proc = "running" /\ NetRun /\ MarkRace)

Spec     == Init /\ [][Next]_vars
FairSpec == Spec /\ Fairness
=============================================================================
