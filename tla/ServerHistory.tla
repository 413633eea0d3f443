--------------------------- MODULE ServerHistory ---------------------------
(***************************************************************************)
(* What the unlocked state of Server is worth.  History variables record   *)
(* when the two threads met and which tables the cache may still answer    *)
(* from; the properties say what holds as long as they did not meet, and   *)
(* what holds although they did.  No history variable is read by an action *)
(* of Server.                                                              *)
(***************************************************************************)
EXTENDS Server

VARIABLES
    overlapped,  \* a packet was in flight during a table update since the
                 \* last cache clear that no packet was in flight at
    tables,      \* the tables installed since the last cache clear
    onlineSeen,  \* a keepalive answer has replaced the table
    scrambled    \* a scan and a route update have run split() at once

hvars == <<vars, overlapped, tables, onlineSeen, scrambled>>

HInit ==
    /\ Init
    /\ overlapped = FALSE
    /\ tables = {<<>>}
    /\ onlineSeen = FALSE
    /\ scrambled = FALSE

\* Told from the step of Server they accompany.
CacheCleared    == netPc = "clearCache" /\ netPc' = "fill"
MeshInstalled   == netPc = "initMeshCpes" /\ netPc' = "addRoutes"
OnlineInstalled == netPc = "initOnlineCpes" /\ netPc' = "idle"

Observe ==
    /\ overlapped' = IF CacheCleared THEN mainPc # "idle"
                     ELSE overlapped \/ (mainPc' # "idle" /\ netPc' # "idle")
    /\ tables' = IF MeshInstalled THEN {m_cpes'}
                 ELSE IF OnlineInstalled THEN tables \cup {m_cpes'}
                 ELSE tables
    /\ onlineSeen' = (onlineSeen \/ OnlineInstalled)
    /\ scrambled' = (scrambled \/ (mainPc' = "scan" /\ netPc' \in SplitBusy))

HNext == Next /\ Observe
HSpec == HInit /\ [][HNext]_hvars
HFairSpec == HSpec /\ Fairness

-----------------------------------------------------------------------------
(* The cache *)

Quiet == proc = "running" /\ ~overlapped

\* MACs a lookup of this mode can have been made with: a TAP frame's own, any
\* of them, since the cache is keyed by the address alone.
LookupMacs(mac) == IF TapMode THEN Macs ELSE {mac}

\* As long as no packet was in flight during an update, whatever the cache says
\* of an address is what a scan of a table installed since the last clear says
\* of it: never 0, never the gateway of an unclaimed address.  The cache is
\* filled and cleared by two threads (server.cpp:412, 450, 574).
CacheCoherent ==
    Quiet => \A ip \in DOMAIN m_ip2nodeid_cache :
                /\ Cacheable(m_ip2nodeid_cache[ip])
                /\ \E t \in tables, mac \in Macs :
                      m_ip2nodeid_cache[ip] = Answer(t, ip, mac)

\* A cached lookup is indistinguishable from a scan: what a looked-up packet is
\* sent to is the answer of a table installed since the last clear, which is
\* m_cpes itself when no keepalive answer came since (server.cpp:351-420).
SentAsTabled ==
    (Quiet /\ mainPc = "send" /\ ~OnlyAcc /\ NeedsLookup(packet)) =>
        \E t \in tables, mac \in LookupMacs(packet.mac) :
            destID = Answer(t, packet.ip, mac)

\* The gateway that answers for unclaimed addresses is never remembered, so a
\* node learned later is reached at once, even after the threads raced and the
\* cache holds an entry that no table supports (server.cpp:358, 412, 450).
GatewayNeverCached ==
    \A ip \in DOMAIN m_ip2nodeid_cache :
        m_ip2nodeid_cache[ip] = GatewayID => GatewayID = 0

-----------------------------------------------------------------------------
(* The kernel routes *)

\* Between notifications every route of the installed mesh is in the kernel but
\* those that it refused in that very update, also after keepalive answers have
\* replaced the table (server.cpp:233-263, 617, 625).
RoutesCoverMesh ==
    (netPc = "idle" /\ ~scrambled) =>
        RoutesOf(MeshCpes(nodeInfoList)) \subseteq kroutes \cup unadded

\* Until a keepalive answer replaces the table, a route of no node of the table is
\* one that the kernel refused to delete, and has not deleted since: an update
\* that goes on after a refusal forgets no other route (server.cpp:269-300, 611).
NoStrayRoutes ==
    (netPc = "idle" /\ ~scrambled /\ ~onlineSeen) =>
        kroutes \subseteq RoutesOf(m_cpes) \cup undeleted

\* Under the same conditions, with no update during its flight, a looked-up
\* packet that the kernel steered here by a route that it has not refused to
\* delete goes to a node that claims its address, from the cache or from the
\* table; it never falls through to the gateway or to 0.  Routes and lookup parse
\* the subnets separately (server.cpp:256-263, 357-389).
SteeredPacketsReachNode ==
    (/\ Quiet /\ netPc = "idle" /\ ~scrambled /\ ~onlineSeen
     /\ mainPc = "send" /\ ~OnlyAcc /\ NeedsLookup(packet)
     /\ \E r \in kroutes \ undeleted : Steers(r, packet.ip)) =>
        \E i \in DOMAIN m_cpes :
            /\ destID = m_cpes[i].node_ID
            /\ \E mac \in LookupMacs(packet.mac) : Claims(m_cpes[i], packet.ip, mac)

\* Before a keepalive answer and before a refusal of the kernel, at any moment but
\* the middle of an update, the kernel steers into the tunnel exactly the addresses
\* that a lookup finds in the subnets of other nodes: the item that the kernel
\* refuses for its host bits is the one that no address ever matches, so that
\* nothing claimed stays outside (server.cpp:252-263, 374-389).
SteeredAsClaimed ==
    (/\ netPc \notin {"initMeshCpes", "addRoutes"} /\ ~scrambled /\ ~onlineSeen
     /\ undeleted = {} /\ unadded = {}) =>
        \A ip \in IPs :
            (\E r \in kroutes : Steers(r, ip)) <=>
                \E i \in DOMAIN m_cpes :
                    /\ m_cpes[i].node_ID # UserID
                    /\ \E s \in m_cpes[i].node_subnet : InSubnet(s, ip)

-----------------------------------------------------------------------------
(* The abstract directory *)

ListsOf(frames) == {f.nodes : f \in frames}

\* While an update has deleted the old routes and not yet added the new ones the
\* directory has those of the table.
Dir == INSTANCE Directory WITH
           MeshLists <- ListsOf({f \in Frames : IsMeshNotify(f)}),
           OnlineLists <- ListsOf({f \in Frames : IsOnlineNotify(f)}),
           table <- m_cpes,
           routes <- IF netPc \in {"initMeshCpes", "addRoutes"}
                     THEN kroutes \cup RoutesOf(m_cpes) ELSE kroutes,
           disturbed <- scrambled

\* Table and routes change together and by whole notifications: never by a part
\* of one or by two, although the update clears, fills, deletes and adds entry by
\* entry while packets are looked up (server.cpp:562-659).
ImplementsDirectory == Dir!Spec

-----------------------------------------------------------------------------
(* Progress *)

\* A mesh notification takes effect whatever the packets do meanwhile: the
\* table becomes the received list's (server.cpp:562-618).
MeshTakesEffect ==
    netPc = "clearCache" ~> (proc # "running"
                             \/ (netPc = "idle" /\ m_cpes = MeshCpes(nodeInfoList)))

-----------------------------------------------------------------------------
(* Acceleration only *)

\* With onlyAcc the tunnel has one exit: whatever notifications install, nothing
\* is looked up, remembered or sent elsewhere, and as no scan runs beside them
\* the route updates are never scrambled (server.cpp:337, 354).
OneExit ==
    OnlyAcc => /\ m_ip2nodeid_cache = NoCache
               /\ mainPc = "send" => destID = GatewayID
               /\ ~scrambled /\ proc # "crashed"

-----------------------------------------------------------------------------
(* What the source says of itself *)

\* "delete all route info....." is printed after del_route_for_nodes
\* (server.cpp:611): no route of the device is left when the table is rebuilt.
AllRoutesDeleted ==
    (netPc = "initMeshCpes" /\ ~scrambled) => kroutes = {}

\* "ip packet and dest ip less than 224.0.0.1" (server.cpp:448): every such
\* packet is looked up, 224.0.0.0 included.
BelowAllHostsLookedUp ==
    [][(mainPc = "idle" /\ mainPc' # "idle" /\ packet'.proto = "ip"
            /\ packet'.ip < MulticastBase + 1)
        => mainPc' = "find"]_vars
=============================================================================
