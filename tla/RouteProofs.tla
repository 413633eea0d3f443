---------------------------- MODULE RouteProofs ----------------------------
(***************************************************************************)
(* The kernel routes follow the node table, for every sequence of          *)
(* notifications and of refusals of the kernel, until a keepalive answer   *)
(* replaces the table or a scan runs split() beside an update.             *)
(***************************************************************************)
EXTENDS ServerProofs

\* Where the update stands when the kernel still has routes of m_cpes, and where
\* it has none but those that it has refused to delete.
RoutesFollow ==
    (~scrambled /\ ~onlineSeen) =>
        /\ netPc \in {"idle", "clearCache", "fill", "delRoutes", "initOnlineCpes"}
              => kroutes \subseteq RoutesOf(m_cpes) \cup undeleted
        /\ netPc \in {"initMeshCpes", "addRoutes"} => kroutes \subseteq undeleted

\* The routes of the list installed last, while no new one is being installed,
\* but those that the kernel refused to add with it.
RoutesKept ==
    ~scrambled =>
        /\ netPc \in {"idle", "clearCache", "initOnlineCpes"}
              => RoutesOf(MeshCpes(nodeInfoList)) \subseteq kroutes \cup unadded
        /\ netPc = "addRoutes" => m_cpes = MeshCpes(nodeInfoList)

\* Two threads inside split() at once are noticed.
SplitNoticed == (mainPc = "scan" /\ netPc \in SplitBusy) => scrambled

RouteInv == RoutesFollow /\ RoutesKept /\ SplitNoticed

\* No notification, no route: the constructor's empty table.
LEMMA NoRoutes == RoutesOf(MeshCpes(<<>>)) = {}
BY DEF RoutesOf, MeshCpes

\* Every step notices an overlap of split() that it makes.
LEMMA SplitNoticedStep ==
    ASSUME SplitNoticed, [HNext]_hvars
    PROVE  SplitNoticed'
BY DEF SplitNoticed, HNext, Observe, hvars, vars, mainVars, netVars

\* Once scrambled or seen, always so: the exceptions only grow.
LEMMA ExceptionsGrow ==
    ASSUME [HNext]_hvars, scrambled \in BOOLEAN, onlineSeen \in BOOLEAN
    PROVE  /\ scrambled' \in BOOLEAN /\ onlineSeen' \in BOOLEAN
           /\ scrambled => scrambled'
           /\ onlineSeen => onlineSeen'
<1>1. CASE Observe
  <2>1. scrambled' = (scrambled \/ (mainPc' = "scan" /\ netPc' \in SplitBusy))
    BY <1>1 DEF Observe
  <2>2. onlineSeen' = (onlineSeen \/ OnlineInstalled)
    BY <1>1 DEF Observe
  <2>3. OnlineInstalled \in BOOLEAN
    BY DEF OnlineInstalled
  <2> QED BY <2>1, <2>2, <2>3
<1>2. CASE UNCHANGED <<scrambled, onlineSeen>>
  BY <1>2
<1> QED BY <1>1, <1>2 DEF HNext, hvars

\* A main-thread step, a crash and a stutter touch no table, route or list.
LEMMA TableStands ==
    ASSUME [HNext]_hvars, ~(proc = "running" /\ NetRun)
    PROVE  /\ UNCHANGED tableVars
           /\ \/ netPc' = netPc
              \/ netPc = "idle" /\ netPc' \in {"clearCache", "initOnlineCpes"}
<1>1. CASE Main
  BY <1>1 DEF Main, MainRun, ReadPacket, ReadFails, CacheFind, CacheGet, ScanTable,
       StoreAnswer, SendPacket, netVars
<1>2. CASE Net /\ ~NetRun
  BY <1>2 DEF Net, RecvMeshNotify, RecvOnlineNotify, RecvDropped, RecvRouteData, netVars
<1>3. CASE RaceCrash
  BY <1>3 DEF RaceCrash, netVars
<1>4. CASE UNCHANGED vars
  BY <1>4 DEF vars, netVars
<1> QED BY <1>1, <1>2, <1>3, <1>4 DEF HNext, Next, Step, Stopped, Net, hvars

\* The steps of an update, one by one.
LEMMA RouteStep ==
    ASSUME RouteInv, [HNext]_hvars, scrambled \in BOOLEAN, onlineSeen \in BOOLEAN
    PROVE  RoutesFollow' /\ RoutesKept'
<1> USE ExceptionsGrow DEF RouteInv
<1>1. CASE ~(proc = "running" /\ NetRun)
  BY <1>1, TableStands DEF RoutesFollow, RoutesKept, tableVars, kernelVars
<1>2. CASE proc = "running" /\ NetRun
  <2> USE DEF RoutesFollow, RoutesKept
  <2>1. CASE ClearCache
    BY <2>1 DEF ClearCache, kernelVars
  <2>2. CASE PushNodeInfo
    BY <2>2 DEF PushNodeInfo, kernelVars
  <2>3. CASE NodeInfoFilled
    BY <2>3 DEF NodeInfoFilled, tableVars, kernelVars
  <2>4. CASE DelRoutes
    <3>1. (mainPc = "scan" => scrambled) /\ netPc = "delRoutes"
      BY <2>4 DEF SplitNoticed, SplitBusy, DelRoutes
    <3>2. CASE mainPc # "scan"
      <4>1. PICK R : /\ kroutes' = kroutes \ (RoutesOf(m_cpes) \ R)
                     /\ undeleted' = (undeleted \ RoutesOf(m_cpes)) \cup R
        BY <2>4, <3>2 DEF DelRoutes
      <4>2. (~scrambled /\ ~onlineSeen) => kroutes' \subseteq undeleted'
        BY <3>1, <4>1
      <4> QED BY <2>4, <4>2 DEF DelRoutes
    <3> QED BY <2>4, <3>1, <3>2 DEF DelRoutes
  <2>5. CASE InitMeshCpes
    BY <2>5 DEF InitMeshCpes, kernelVars
  <2>6. CASE AddRoutes
    <3>1. mainPc = "scan" => scrambled
      BY <2>6 DEF SplitNoticed, SplitBusy, AddRoutes
    <3>2. /\ netPc = "addRoutes" /\ netPc' = "idle"
          /\ UNCHANGED <<m_cpes, nodeInfoList, undeleted>>
      BY <2>6 DEF AddRoutes
    <3>3. ~scrambled => kroutes' \subseteq kroutes \cup RoutesOf(m_cpes)
      BY <2>6, <3>1 DEF AddRoutes
    <3>4. ~scrambled => RoutesOf(m_cpes) \subseteq kroutes' \cup unadded'
      BY <2>6, <3>1 DEF AddRoutes
    <3> QED BY <3>2, <3>3, <3>4
  <2>7. CASE InitOnlineCpes
    <3>1. onlineSeen'
      BY <2>7 DEF InitOnlineCpes, HNext, Observe, OnlineInstalled, hvars, vars, netVars
    <3> QED BY <2>7, <3>1 DEF InitOnlineCpes, kernelVars
  <2> QED BY <1>2, <2>1, <2>2, <2>3, <2>4, <2>5, <2>6, <2>7 DEF NetRun
<1> QED BY <1>1, <1>2

\* RouteInv holds of every behaviour.
THEOREM RoutesFollowTable == HSpec => []RouteInv
<1> DEFINE Inv == /\ RouteInv
                  /\ scrambled \in BOOLEAN /\ onlineSeen \in BOOLEAN
<1>1. HInit => Inv
  BY NoRoutes DEF HInit, Init, RouteInv, RoutesFollow, RoutesKept, SplitNoticed, SplitBusy
<1>2. Inv /\ [HNext]_hvars => Inv'
  BY RouteStep, SplitNoticedStep, ExceptionsGrow DEF RouteInv
<1> QED BY <1>1, <1>2, PTL DEF HSpec

\* A mesh update leaves no route of a former table behind but those that the
\* kernel refused to delete and has not deleted since, whatever else it refuses
\* (server.cpp:269-303, 610-616).
THEOREM UpdatesLeaveNoRoute == HSpec => []NoStrayRoutes
<1>1. RouteInv => NoStrayRoutes
  BY DEF RouteInv, RoutesFollow, NoStrayRoutes
<1> QED BY <1>1, RoutesFollowTable, PTL

\* What the source says of a mesh update, that it deletes all routes before it
\* rebuilds the table, is true as long as there has been no keepalive answer and
\* the kernel has deleted every route it was asked to (server.cpp:300, 610-611).
THEOREM RoutesAreDeleted ==
    HSpec => []((~onlineSeen /\ undeleted = {}) => AllRoutesDeleted)
<1>1. RouteInv => ((~onlineSeen /\ undeleted = {}) => AllRoutesDeleted)
  BY DEF RouteInv, RoutesFollow, AllRoutesDeleted
<1> QED BY <1>1, RoutesFollowTable, PTL

\* The routes of the mesh installed last, but those that the kernel refused with
\* it, stay there whatever keepalive answers do to the table (server.cpp:233-266,
\* 617, 620-659).
THEOREM RoutesStayCovered == HSpec => []RoutesCoverMesh
<1>1. RouteInv => RoutesCoverMesh
  BY DEF RouteInv, RoutesKept, RoutesCoverMesh
<1> QED BY <1>1, RoutesFollowTable, PTL

-----------------------------------------------------------------------------
(* The abstract directory *)

\* Outside its two middle steps an update finds the routes of the table in the
\* kernel, but those refused; between them the kernel has none of the old table's
\* but those that it refused to delete.
TableRouted ==
    ~scrambled =>
        /\ netPc \notin {"initMeshCpes", "addRoutes"}
              => RoutesOf(m_cpes) \subseteq kroutes \cup unadded
        /\ netPc = "initMeshCpes" => kroutes \cap RoutesOf(m_cpes) \subseteq undeleted

\* A kernel without faults takes and deletes every good route.
NothingRefused == ~RouteFaults => (undeleted = {} /\ unadded = {})

MeshLists   == ListsOf({f \in Frames : IsMeshNotify(f)})
OnlineLists == ListsOf({f \in Frames : IsOnlineNotify(f)})

\* list has those of the first n nodes that have a subnet, in their order.
Picked(list, nodes, n) ==
    \E g \in [DOMAIN list -> 1 .. n] :
        /\ \A j, k \in DOMAIN list : j < k => g[j] < g[k]
        /\ \A i \in 1 .. n : nodes[i].subnet # NoSubnet <=> \E k \in DOMAIN list : g[k] = i
        /\ \A k \in DOMAIN list : list[k] = nodes[g[k]]

\* What is left of a message after its first n nodes.
LeftOf(nodes, n) ==
    /\ Len(pending) = Len(nodes) - n
    /\ \A i \in 1 .. Len(pending) : pending[i] = nodes[n + i]

\* Where a notification stands between its message and the table.
ListFollows ==
    /\ netPc = "clearCache" => pending \in MeshLists
    /\ netPc = "initOnlineCpes" => pending \in OnlineLists
    /\ netPc = "fill" => \E nodes \in MeshLists : \E n \in 0 .. Len(nodes) :
                            LeftOf(nodes, n) /\ Picked(nodeInfoList, nodes, n)
    /\ netPc \in {"delRoutes", "initMeshCpes"} =>
          \E nodes \in MeshLists : Picked(nodeInfoList, nodes, Len(nodes))

DirInv == TableRouted /\ NothingRefused /\ ListFollows

\* The lists of the messages are sequences.
LEMMA ListsTyped == \A nodes \in MeshLists \cup OnlineLists : nodes \in Seq(NetInfo)
<1>1. \A f \in Frames : f.nodes \in Seq(NetInfo)
  BY ServerAssumption DEF Frame
<1> QED BY <1>1 DEF MeshLists, OnlineLists, ListsOf

\* A node of a keepalive answer has no subnet, and so asks for no route.
LEMMA OnlineCpesUnrouted == \A infos : RoutesOf(OnlineCpes(infos)) = {}
BY DEF RoutesOf, OnlineCpes, OnlineCpe

\* The directory reads nodes and subnets as Server does.
LEMMA SameLookup ==
    /\ \A cpes : Dir!RoutesOf(cpes) = RoutesOf(cpes)
    /\ \A infos : Dir!OnlineCpes(infos) = OnlineCpes(infos)
    /\ \A info : Dir!CpeOf(info) = CpeOf(info)
    /\ Dir!NoSubnet = NoSubnet
<1>1. \A text : Dir!InetAddr(text) = InetAddr(text)
  BY DEF Dir!InetAddr, InetAddr, Dir!AllOnes, AllOnes, Dir!BadText, BadText
<1>2. \A s : Dir!Usable(s) <=> Usable(s)
  BY DEF Dir!Usable, Usable
<1>3. \A s : Dir!RouteTo(s) = RouteTo(s)
  BY <1>1 DEF Dir!RouteTo, RouteTo
<1>4. Dir!Route = Route
  BY DEF Dir!Route, Route, Dir!IPs, IPs
<1>5. \A r : Dir!KernelAccepts(r) <=> KernelAccepts(r)
  BY DEF Dir!KernelAccepts, KernelAccepts, Dir!Mask, Mask
<1>6. \A cpes : Dir!RoutesOf(cpes) = RoutesOf(cpes)
  BY <1>2, <1>3, <1>4, <1>5 DEF Dir!RoutesOf, RoutesOf
<1>7. \A info : Dir!OnlineCpe(info) = OnlineCpe(info)
  BY <1>1 DEF Dir!OnlineCpe, OnlineCpe
<1>8. \A infos : Dir!OnlineCpes(infos) = OnlineCpes(infos)
  BY <1>7 DEF Dir!OnlineCpes, OnlineCpes
<1>9. \A info : Dir!CpeOf(info) = CpeOf(info)
  BY <1>1 DEF Dir!CpeOf, CpeOf
<1>10. Dir!NoSubnet = NoSubnet
  BY DEF Dir!NoSubnet, NoSubnet, Dir!NoSlash, NoSlash
<1> QED BY <1>6, <1>8, <1>9, <1>10

\* One more node of the message is gone through.
LEMMA PickedExtends ==
    ASSUME NEW nodes \in Seq(NetInfo), NEW n \in 0 .. Len(nodes) - 1,
           NEW list \in Seq(NetInfo), Picked(list, nodes, n)
    PROVE  Picked(IF nodes[n + 1].subnet = NoSubnet THEN list
                  ELSE Append(list, nodes[n + 1]), nodes, n + 1)
<1>1. PICK g \in [DOMAIN list -> 1 .. n] :
          /\ \A j, k \in DOMAIN list : j < k => g[j] < g[k]
          /\ \A i \in 1 .. n : nodes[i].subnet # NoSubnet <=> \E k \in DOMAIN list : g[k] = i
          /\ \A k \in DOMAIN list : list[k] = nodes[g[k]]
  BY DEF Picked
<1>2. CASE nodes[n + 1].subnet = NoSubnet
  <2>1. g \in [DOMAIN list -> 1 .. n + 1]
    OBVIOUS
  <2>2. \A i \in 1 .. n + 1 :
           nodes[i].subnet # NoSubnet <=> \E k \in DOMAIN list : g[k] = i
    <3>1. \A k \in DOMAIN list : g[k] # n + 1
      OBVIOUS
    <3> QED BY <1>1, <1>2, <3>1
  <2>3. Picked(list, nodes, n + 1)
    BY <1>1, <2>1, <2>2 DEF Picked
  <2> QED BY <1>2, <2>3
<1>3. CASE nodes[n + 1].subnet # NoSubnet
  <2> DEFINE more == Append(list, nodes[n + 1])
             h == [k \in DOMAIN more |-> IF k \in DOMAIN list THEN g[k] ELSE n + 1]
  <2>1. /\ DOMAIN more = 1 .. Len(list) + 1 /\ DOMAIN list = 1 .. Len(list)
        /\ Len(list) \in Nat
        /\ \A k \in DOMAIN list : more[k] = list[k]
        /\ more[Len(list) + 1] = nodes[n + 1]
    OBVIOUS
  <2> HIDE DEF more
  <2>2. /\ \A k \in DOMAIN list : h[k] = g[k] /\ g[k] \in 1 .. n
        /\ h[Len(list) + 1] = n + 1
    BY <2>1
  <2>3. h \in [DOMAIN more -> 1 .. n + 1]
    BY <2>1
  <2> HIDE DEF h
  <2>4. \A j, k \in DOMAIN more : j < k => h[j] < h[k]
    BY <1>1, <2>1, <2>2
  <2>5. \A i \in 1 .. n + 1 :
           nodes[i].subnet # NoSubnet <=> \E k \in DOMAIN more : h[k] = i
    <3>1. nodes[n + 1].subnet # NoSubnet /\ \E k \in DOMAIN more : h[k] = n + 1
      BY <1>3, <2>1, <2>2
    <3>2. ASSUME NEW i \in 1 .. n, NEW k \in DOMAIN more, h[k] = i
          PROVE  \E q \in DOMAIN list : g[q] = i
      <4>1. k # Len(list) + 1
        BY <2>2, <3>2
      <4>2. k \in DOMAIN list
        BY <2>1, <4>1
      <4> QED BY <2>2, <3>2, <4>2
    <3>3. ASSUME NEW i \in 1 .. n, NEW k \in DOMAIN list, g[k] = i
          PROVE  \E q \in DOMAIN more : h[q] = i
      BY <2>1, <2>2, <3>3
    <3>4. \A i \in 1 .. n :
             nodes[i].subnet # NoSubnet <=> \E k \in DOMAIN more : h[k] = i
      BY <1>1, <3>2, <3>3
    <3>5. \A i \in 1 .. n + 1 : i \in 1 .. n \/ i = n + 1
      OBVIOUS
    <3> QED BY <3>1, <3>4, <3>5
  <2>6. \A k \in DOMAIN more : more[k] = nodes[h[k]]
    BY <1>1, <2>1, <2>2
  <2> QED BY <1>3, <2>3, <2>4, <2>5, <2>6 DEF Picked, more
<1> QED BY <1>2, <1>3

\* Every step takes a notification on by at most one stage.
LEMMA ListStep ==
    ASSUME ListFollows, TypeOK, [HNext]_hvars
    PROVE  ListFollows'
<1>1. CASE UNCHANGED <<netPc, pending, nodeInfoList>>
  BY <1>1 DEF ListFollows, LeftOf
<1>2. CASE RecvMeshNotify
  BY <1>2 DEF RecvMeshNotify, ListFollows, MeshLists, ListsOf
<1>3. CASE RecvOnlineNotify
  BY <1>3 DEF RecvOnlineNotify, ListFollows, OnlineLists, ListsOf
<1>4. CASE ClearCache
  <2>1. /\ netPc' = "fill" /\ pending' = pending /\ nodeInfoList' = <<>>
        /\ pending \in MeshLists
    BY <1>4 DEF ClearCache, ListFollows
  <2>2. pending \in Seq(NetInfo)
    BY <2>1, ListsTyped
  <2>3. Len(pending') = Len(pending) - 0 /\ 0 \in 0 .. Len(pending)
    BY <2>1, <2>2
  <2>4. \A i \in 1 .. Len(pending') : pending'[i] = pending[0 + i]
    BY <2>1, <2>2
  <2>5. Picked(<<>>, pending, 0)
    <3> DEFINE none == <<>>
    <3>1. DOMAIN none = {} /\ 1 .. 0 = {}
      OBVIOUS
    <3>2. none \in [DOMAIN none -> 1 .. 0]
      BY <3>1
    <3> HIDE DEF none
    <3>3. Picked(none, pending, 0)
      BY <3>1, <3>2 DEF Picked
    <3> QED BY <3>3 DEF none
  <2> QED BY <2>1, <2>3, <2>4, <2>5 DEF ListFollows, LeftOf
<1>5. CASE PushNodeInfo
  <2>1. netPc = "fill" /\ netPc' = "fill" /\ pending # <<>> /\ pending' = Tail(pending)
    BY <1>5 DEF PushNodeInfo
  <2>2. PICK nodes \in MeshLists : \E n \in 0 .. Len(nodes) :
            LeftOf(nodes, n) /\ Picked(nodeInfoList, nodes, n)
    BY <2>1 DEF ListFollows
  <2>3. PICK n \in 0 .. Len(nodes) : LeftOf(nodes, n) /\ Picked(nodeInfoList, nodes, n)
    BY <2>2
  <2>4. nodes \in Seq(NetInfo) /\ pending \in Seq(NetInfo) /\ nodeInfoList \in Seq(NetInfo)
    BY ListsTyped DEF TypeOK
  <2>5. Len(pending) \in Nat \ {0} /\ Len(nodes) \in Nat
    BY <2>1, <2>4
  <2>6. n + 1 \in 0 .. Len(nodes) /\ n \in 0 .. Len(nodes) - 1 /\ n \in Nat
    BY <2>3, <2>5 DEF LeftOf
  <2>7. Head(pending) = nodes[n + 1]
    BY <2>3, <2>4, <2>5 DEF LeftOf
  <2>8. LeftOf(nodes, n + 1)'
    <3>1. Len(pending') = Len(pending) - 1
      BY <2>1, <2>4, <2>5
    <3>2. \A i \in 1 .. Len(pending') : pending'[i] = pending[i + 1]
      BY <2>1, <2>4, <2>5
    <3> QED BY <2>3, <2>5, <2>6, <3>1, <3>2 DEF LeftOf
  <2>9. nodeInfoList' = IF nodes[n + 1].subnet = NoSubnet THEN nodeInfoList
                        ELSE Append(nodeInfoList, nodes[n + 1])
    BY <1>5, <2>7 DEF PushNodeInfo
  <2>10. Picked(nodeInfoList', nodes, n + 1)
    BY <2>3, <2>4, <2>6, <2>9, PickedExtends
  <2> QED BY <2>1, <2>6, <2>8, <2>10 DEF ListFollows
<1>6. CASE NodeInfoFilled
  <2>1. netPc = "fill" /\ netPc' = "delRoutes" /\ pending = <<>>
        /\ nodeInfoList' = nodeInfoList
    BY <1>6 DEF NodeInfoFilled, tableVars
  <2>2. PICK nodes \in MeshLists : \E n \in 0 .. Len(nodes) :
            LeftOf(nodes, n) /\ Picked(nodeInfoList, nodes, n)
    BY <2>1 DEF ListFollows
  <2>3. PICK n \in 0 .. Len(nodes) : LeftOf(nodes, n) /\ Picked(nodeInfoList, nodes, n)
    BY <2>2
  <2>4. n = Len(nodes)
    <3>1. nodes \in Seq(NetInfo)
      BY ListsTyped
    <3> QED BY <2>1, <2>3, <3>1 DEF LeftOf
  <2> QED BY <2>1, <2>3, <2>4 DEF ListFollows
<1>7. CASE DelRoutes
  BY <1>7 DEF DelRoutes, ListFollows
<1>8. CASE InitMeshCpes \/ AddRoutes \/ InitOnlineCpes
  BY <1>8 DEF InitMeshCpes, AddRoutes, InitOnlineCpes, ListFollows
<1>9. CASE ~Net \/ RecvDropped \/ RecvRouteData
  BY <1>1, <1>9 DEF HNext, Next, Step, Stopped, hvars, vars, netVars, tableVars, Main,
       MainRun, ReadPacket, ReadFails, CacheFind, CacheGet, ScanTable, StoreAnswer,
       SendPacket, RecvDropped, RecvRouteData, RaceCrash
<1> QED BY <1>2, <1>3, <1>4, <1>5, <1>6, <1>7, <1>8, <1>9 DEF Net, NetRun

\* Deleting takes the table's routes out of the kernel, adding puts them in, and
\* a keepalive answer leaves a table that asks for none.
LEMMA TableRoutedStep ==
    ASSUME TableRouted, SplitNoticed, [HNext]_hvars,
           scrambled \in BOOLEAN, onlineSeen \in BOOLEAN
    PROVE  TableRouted'
<1> USE ExceptionsGrow DEF TableRouted
<1>1. CASE ~(proc = "running" /\ NetRun)
  BY <1>1, TableStands DEF tableVars, kernelVars
<1>2. CASE ClearCache \/ PushNodeInfo \/ NodeInfoFilled
  BY <1>2 DEF ClearCache, PushNodeInfo, NodeInfoFilled, tableVars, kernelVars
<1>3. CASE DelRoutes
  <2>1. mainPc = "scan" => scrambled
    BY <1>3 DEF SplitNoticed, SplitBusy, DelRoutes
  <2>2. netPc' = "initMeshCpes" /\ m_cpes' = m_cpes
    BY <1>3 DEF DelRoutes
  <2>3. CASE mainPc # "scan"
    <3>1. PICK R : /\ kroutes' = kroutes \ (RoutesOf(m_cpes) \ R)
                   /\ undeleted' = (undeleted \ RoutesOf(m_cpes)) \cup R
      BY <1>3, <2>3 DEF DelRoutes
    <3>2. kroutes' \cap RoutesOf(m_cpes) \subseteq undeleted'
      BY <3>1
    <3> QED BY <2>2, <3>2
  <2> QED BY <2>1, <2>2, <2>3
<1>4. CASE InitMeshCpes
  BY <1>4 DEF InitMeshCpes
<1>5. CASE AddRoutes
  <2>1. mainPc = "scan" => scrambled
    BY <1>5 DEF SplitNoticed, SplitBusy, AddRoutes
  <2>2. netPc' = "idle" /\ m_cpes' = m_cpes
    BY <1>5 DEF AddRoutes
  <2>3. ~scrambled => RoutesOf(m_cpes) \subseteq kroutes' \cup unadded'
    BY <1>5, <2>1 DEF AddRoutes
  <2> QED BY <2>2, <2>3
<1>6. CASE InitOnlineCpes
  <2>1. netPc' = "idle" /\ RoutesOf(m_cpes') = {}
    BY <1>6, OnlineCpesUnrouted DEF InitOnlineCpes
  <2> QED BY <2>1
<1> QED BY <1>1, <1>2, <1>3, <1>4, <1>5, <1>6 DEF NetRun

\* Only an update asks anything of the kernel.
LEMMA NothingRefusedStep ==
    ASSUME NothingRefused, [HNext]_hvars
    PROVE  NothingRefused'
<1> USE DEF NothingRefused
<1>1. CASE ~(proc = "running" /\ NetRun)
  BY <1>1, TableStands DEF tableVars, kernelVars
<1>2. CASE ClearCache \/ PushNodeInfo \/ NodeInfoFilled \/ InitMeshCpes \/ InitOnlineCpes
  BY <1>2 DEF ClearCache, PushNodeInfo, NodeInfoFilled, InitMeshCpes, InitOnlineCpes,
       tableVars, kernelVars
<1>3. CASE DelRoutes
  <2>1. ~RouteFaults => undeleted' \subseteq undeleted
    BY <1>3 DEF DelRoutes, Refusals
  <2>2. unadded' = unadded
    BY <1>3 DEF DelRoutes
  <2> QED BY <2>1, <2>2
<1>4. CASE AddRoutes
  <2>1. ~RouteFaults => (unadded' = {} \/ unadded' = unadded)
    BY <1>4 DEF AddRoutes, Refusals
  <2>2. undeleted' = undeleted
    BY <1>4 DEF AddRoutes
  <2> QED BY <2>1, <2>2
<1> QED BY <1>1, <1>2, <1>3, <1>4 DEF NetRun

\* DirInv holds of every behaviour.
LEMMA DirInvariant == HSpec => [](DirInv /\ TypeOK)
<1> DEFINE Inv == /\ DirInv /\ TypeOK /\ SplitNoticed
                  /\ scrambled \in BOOLEAN /\ onlineSeen \in BOOLEAN
<1>1. HInit => Inv
  <2>1. RoutesOf(<<>>) = {}
    BY DEF RoutesOf
  <2> QED BY <2>1, InitType
          DEF HInit, Init, DirInv, TableRouted, NothingRefused, ListFollows,
              SplitNoticed
<1>2. Inv /\ [HNext]_hvars => Inv'
  <2> SUFFICES ASSUME Inv, [HNext]_hvars PROVE Inv'
    OBVIOUS
  <2>1. [Next]_vars
    BY DEF HNext, hvars
  <2>2. TypeOK'
    BY <2>1, TypeStep
  <2> QED BY <2>2, ListStep, TableRoutedStep, NothingRefusedStep, SplitNoticedStep,
             ExceptionsGrow DEF DirInv
<1>3. Inv => DirInv /\ TypeOK
  OBVIOUS
<1> QED BY <1>1, <1>2, <1>3, PTL DEF HSpec

\* The table of a list of picked nodes is one that the directory may install.
LEMMA PickedInstalls ==
    ASSUME NEW nodes \in MeshLists, NEW list \in Seq(NetInfo),
           Picked(list, nodes, Len(nodes))
    PROVE  Dir!Installs(MeshCpes(list), nodes)
<1>1. nodes \in Seq(NetInfo) /\ DOMAIN nodes = 1 .. Len(nodes)
  BY ListsTyped
<1>2. DOMAIN MeshCpes(list) = DOMAIN list
  BY DEF MeshCpes
<1>3. \A k \in DOMAIN list : MeshCpes(list)[k] = CpeOf(list[k])
  BY DEF MeshCpes
<1> QED BY <1>1, <1>2, <1>3, SameLookup DEF Picked, Dir!Installs

\* A step of the server is a step of the directory, or none.
LEMMA DirectoryStep ==
    ASSUME DirInv, TypeOK, SplitNoticed, ~RouteFaults, [HNext]_hvars,
           scrambled \in BOOLEAN, onlineSeen \in BOOLEAN
    PROVE  [Dir!Next]_(Dir!dirVars)
<1> USE DEF DirInv
<1>1. CASE scrambled'
  BY <1>1 DEF Dir!Next, Dir!Disturbed
<1>2. CASE ~scrambled'
  <2>1. ~scrambled /\ (scrambled' = scrambled)
    BY <1>2, ExceptionsGrow
  <2> DEFINE between == netPc \in {"initMeshCpes", "addRoutes"}
             seen == IF between THEN kroutes \cup RoutesOf(m_cpes) ELSE kroutes
  <2>2. ASSUME UNCHANGED m_cpes, (seen') = seen PROVE UNCHANGED Dir!dirVars
    BY <2>1, <2>2 DEF Dir!dirVars
  <2>3. CASE ~(proc = "running" /\ NetRun)
    <3>1. UNCHANGED <<m_cpes, kroutes>> /\ (between' <=> between)
      BY <2>3, TableStands DEF tableVars, kernelVars
    <3> QED BY <2>2, <3>1
  <2>4. CASE ClearCache \/ PushNodeInfo \/ NodeInfoFilled
    <3>1. UNCHANGED <<m_cpes, kroutes>> /\ (between' <=> between)
      BY <2>4 DEF ClearCache, PushNodeInfo, NodeInfoFilled, tableVars,
           kernelVars
    <3> QED BY <2>2, <3>1
  <2>5. CASE DelRoutes
    <3>1. mainPc # "scan" /\ netPc = "delRoutes"
      BY <2>1, <2>5 DEF SplitNoticed, SplitBusy, DelRoutes
    <3>2. kroutes' = kroutes \ RoutesOf(m_cpes) /\ m_cpes' = m_cpes
      BY <2>5, <3>1 DEF DelRoutes, Refusals
    <3>3. RoutesOf(m_cpes) \subseteq kroutes
      BY <2>1, <3>1 DEF TableRouted, NothingRefused
    <3>4. ~between /\ between'
      BY <2>5 DEF DelRoutes
    <3> QED BY <2>2, <3>2, <3>3, <3>4
  <2>6. CASE InitMeshCpes
    <3>1. /\ netPc = "initMeshCpes" /\ between /\ between' /\ kroutes' = kroutes
          /\ m_cpes' = MeshCpes(nodeInfoList)
      BY <2>6 DEF InitMeshCpes, kernelVars
    <3>2. PICK nodes \in MeshLists : Picked(nodeInfoList, nodes, Len(nodes))
      BY <3>1 DEF ListFollows
    <3>3. Dir!Installs(m_cpes', nodes)
      BY <3>1, <3>2, PickedInstalls DEF TypeOK
    <3>4. kroutes \cap RoutesOf(m_cpes) = {}
      BY <2>1, <3>1 DEF TableRouted, NothingRefused
    <3>5. (seen') = (seen \ RoutesOf(m_cpes)) \cup RoutesOf(m_cpes')
      BY <3>1, <3>4
    <3> QED BY <2>1, <3>3, <3>5, SameLookup DEF Dir!Next, Dir!MeshUpdate, MeshLists
  <2>7. CASE AddRoutes
    <3>1. mainPc # "scan"
      BY <2>1, <2>7 DEF SplitNoticed, SplitBusy, AddRoutes
    <3>2. kroutes' = kroutes \cup RoutesOf(m_cpes) /\ m_cpes' = m_cpes
      BY <2>7, <3>1 DEF AddRoutes, Refusals
    <3>3. between /\ ~between'
      BY <2>7 DEF AddRoutes
    <3> QED BY <2>2, <3>2, <3>3
  <2>8. CASE InitOnlineCpes
    <3>1. /\ netPc = "initOnlineCpes" /\ ~between /\ ~between' /\ kroutes' = kroutes
          /\ m_cpes' = OnlineCpes(pending)
      BY <2>8 DEF InitOnlineCpes, kernelVars
    <3>2. pending \in OnlineLists
      BY <3>1 DEF ListFollows
    <3> QED BY <2>1, <3>1, <3>2, SameLookup DEF Dir!Next, Dir!OnlineUpdate, OnlineLists
  <2> QED BY <2>3, <2>4, <2>5, <2>6, <2>7, <2>8 DEF NetRun
<1> QED BY <1>1, <1>2, ExceptionsGrow

\* Table and routes of the server change by whole notifications, in one step
\* each, as long as the kernel takes and deletes the routes: the server implements
\* the directory (server.cpp:562-659).
THEOREM UpdatesAreAtomic ==
    ASSUME ~RouteFaults
    PROVE  HSpec => ImplementsDirectory
<1> DEFINE Inv == DirInv /\ TypeOK /\ SplitNoticed
                  /\ scrambled \in BOOLEAN /\ onlineSeen \in BOOLEAN
<1>1. HInit => Dir!Init
  BY DEF HInit, Init, Dir!Init
<1>2. HSpec => []Inv
  <2>1. HInit => SplitNoticed /\ scrambled \in BOOLEAN /\ onlineSeen \in BOOLEAN
    BY DEF HInit, Init, SplitNoticed
  <2>2. /\ SplitNoticed /\ scrambled \in BOOLEAN /\ onlineSeen \in BOOLEAN
        /\ [HNext]_hvars
        => (SplitNoticed /\ scrambled \in BOOLEAN /\ onlineSeen \in BOOLEAN)'
    BY SplitNoticedStep, ExceptionsGrow
  <2> QED BY <2>1, <2>2, DirInvariant, PTL DEF HSpec
<1>3. Inv /\ [HNext]_hvars => [Dir!Next]_(Dir!dirVars)
  BY DirectoryStep
<1> QED BY <1>1, <1>2, <1>3, PTL DEF HSpec, ImplementsDirectory, Dir!Spec

-----------------------------------------------------------------------------
(* The kernel and the lookup *)

\* Outside the middle of an update the kernel steers what the subnets of other
\* nodes claim, and nothing else, once it has refused none of it, whatever the width of an address and whatever
\* the subnets: those with host bits, without a length or with too large a one
\* included (server.cpp:233-303, 370-389).
THEOREM RoutesSteerClaims == HSpec => []SteeredAsClaimed
<1>1. RouteInv /\ DirInv /\ TypeOK => SteeredAsClaimed
  <2> SUFFICES ASSUME RouteInv, DirInv, TypeOK,
                      netPc \notin {"initMeshCpes", "addRoutes"},
                      ~scrambled, ~onlineSeen, undeleted = {}, unadded = {},
                      NEW ip \in IPs
               PROVE  (\E r \in kroutes : Steers(r, ip)) <=>
                          \E i \in DOMAIN m_cpes :
                              /\ m_cpes[i].node_ID # UserID
                              /\ \E s \in m_cpes[i].node_subnet : InSubnet(s, ip)
    BY DEF SteeredAsClaimed
  <2>1. kroutes \subseteq RoutesOf(m_cpes)
    BY DEF RouteInv, RoutesFollow, TypeOK, NetPcs
  <2>2. RoutesOf(m_cpes) \subseteq kroutes
    BY DEF DirInv, TableRouted
  <2>3. kroutes = RoutesOf(m_cpes) /\ m_cpes \in Seq(CpeNode)
    BY <2>1, <2>2 DEF TypeOK
  <2> QED BY <2>3, RoutesAreExact
<1> QED BY <1>1, RoutesFollowTable, DirInvariant, PTL
=============================================================================
