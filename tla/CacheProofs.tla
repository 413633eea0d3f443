---------------------------- MODULE CacheProofs ----------------------------
(***************************************************************************)
(* The cache is transparent: as long as no packet is in flight during a    *)
(* table update, what a packet is sent to is what a scan would answer.     *)
(***************************************************************************)
EXTENDS RouteProofs

\* The table in use is one of those installed since the last clear.
TablesTyped ==
    /\ m_cpes \in tables
    /\ \A t \in tables : t \in Seq(CpeNode)

\* A packet that meets an update, and a scan that is raced, are noticed.
MeetingNoticed ==
    /\ (mainPc # "idle" /\ netPc # "idle") => overlapped
    /\ scanRaced => (overlapped /\ mainPc = "scan")

\* Between the clear and the new table nothing is remembered.
CacheEmptied ==
    (~overlapped /\ netPc \in {"fill", "delRoutes", "initMeshCpes"}) =>
        m_ip2nodeid_cache = NoCache

Supported(ip, id) == \E t \in tables, mac \in Macs : id = Answer(t, ip, mac)

EntriesSupported ==
    ~overlapped => \A ip \in DOMAIN m_ip2nodeid_cache :
                      /\ Cacheable(m_ip2nodeid_cache[ip])
                      /\ Supported(ip, m_ip2nodeid_cache[ip])

\* The entry that find saw is still there for operator[].
FoundStays ==
    (mainPc = "get" /\ ~overlapped) => packet.ip \in DOMAIN m_ip2nodeid_cache

FromTable(p, id) ==
    \E t \in tables, mac \in LookupMacs(p.mac) : id = Answer(t, p.ip, mac)

\* A destination that was looked up is the answer of a table.
DestinationFromTable ==
    (/\ ~overlapped
     /\ \/ mainPc = "store"
        \/ mainPc = "send" /\ ~OnlyAcc /\ NeedsLookup(packet))
    => FromTable(packet, destID)

LookupInv == FoundStays /\ DestinationFromTable
CacheInv  == /\ TablesTyped /\ MeetingNoticed
             /\ CacheEmptied /\ EntriesSupported /\ LookupInv

-----------------------------------------------------------------------------
(* Lookups *)

\* In TUN mode the MAC makes no difference to a scan (server.cpp:391).
LEMMA MacIrrelevant ==
    ASSUME ~TapMode, NEW cpes \in Seq(CpeNode), NEW ip, NEW m1, NEW m2
    PROVE  Answer(cpes, ip, m1) = Answer(cpes, ip, m2)
<1>1. \A node : Claims(node, ip, m1) <=> Claims(node, ip, m2)
  BY DEF Claims
<1>2. CASE \A i \in DOMAIN cpes : ~Claims(cpes[i], ip, m1)
  <2>1. \A m \in {m1, m2} : Answer(cpes, ip, m) = Unclaimed
    BY <1>1, <1>2, ScanReturnsFirstClaim DEF IsFirstClaim
  <2> QED BY <2>1
<1>3. CASE \E i \in DOMAIN cpes : Claims(cpes[i], ip, m1)
  <2>1. PICK i \in DOMAIN cpes : /\ IsFirstClaim(cpes, i, ip, m1)
                                 /\ Answer(cpes, ip, m1) = cpes[i].node_ID
    BY <1>3, ScanReturnsFirstClaim
  <2>2. PICK j \in DOMAIN cpes : /\ IsFirstClaim(cpes, j, ip, m2)
                                 /\ Answer(cpes, ip, m2) = cpes[j].node_ID
    BY <1>1, <1>3, ScanReturnsFirstClaim
  <2>3. i =< j /\ j =< i
    BY <1>1, <2>1, <2>2 DEF IsFirstClaim
  <2>4. i \in Nat /\ j \in Nat
    OBVIOUS
  <2>5. i = j
    BY <2>3, <2>4
  <2> QED BY <2>1, <2>2, <2>5
<1> QED BY <1>2, <1>3

\* What supports a remembered answer supports it for the packet that asks.
LEMMA SupportedIsFromTable ==
    ASSUME TablesTyped, NEW p \in Packet, NEW id
    PROVE  Supported(p.ip, id) <=> FromTable(p, id)
<1>1. p.mac \in Macs
  BY DEF Packet
<1>2. CASE TapMode
  BY <1>2 DEF Supported, FromTable, LookupMacs
<1>3. CASE ~TapMode
  <2>1. \A t \in tables, mac \in Macs : Answer(t, p.ip, mac) = Answer(t, p.ip, p.mac)
    BY <1>3, MacIrrelevant DEF TablesTyped
  <2> QED BY <1>1, <1>3, <2>1 DEF Supported, FromTable, LookupMacs
<1> QED BY <1>2, <1>3

-----------------------------------------------------------------------------
(* Steps *)

\* Meetings are noticed by the step that makes them.
LEMMA NoticedStep ==
    ASSUME MeetingNoticed, TypeOK, overlapped \in BOOLEAN, [HNext]_hvars
    PROVE  MeetingNoticed' /\ overlapped' \in BOOLEAN
<1>1. CASE Step /\ Observe
  <2>1. scanRaced' = (mainPc' = "scan" /\ (scanRaced \/ netPc' \in TableBusy))
    BY <1>1 DEF Step, MarkRace
  <2>2. CASE CacheCleared
    <3>1. overlapped' = (mainPc # "idle")
      BY <1>1, <2>2 DEF Observe
    <3>2. mainPc' = mainPc /\ netPc' = "fill"
      BY <1>1, <2>2 DEF CacheCleared, Step, Main, MainRun, ReadPacket, ReadFails,
           CacheFind, CacheGet, ScanTable, StoreAnswer, SendPacket, Net, NetRun,
           RecvMeshNotify, RecvOnlineNotify, RecvDropped, RecvRouteData, ClearCache,
           PushNodeInfo, NodeInfoFilled, DelRoutes, InitMeshCpes, AddRoutes,
           InitOnlineCpes, RaceCrash, netVars, mainVars
    <3> QED BY <2>1, <3>1, <3>2 DEF MeetingNoticed
  <2>3. CASE ~CacheCleared
    <3>1. overlapped' = (overlapped \/ (mainPc' # "idle" /\ netPc' # "idle"))
      BY <1>1, <2>3 DEF Observe
    <3>2. "idle" \notin TableBusy
      BY DEF TableBusy, SplitBusy
    <3> QED BY <2>1, <3>1, <3>2 DEF MeetingNoticed, TypeOK
  <2> QED BY <2>2, <2>3
<1>2. CASE (Stopped /\ Observe) \/ UNCHANGED hvars
  <2>1. UNCHANGED <<mainPc, netPc, scanRaced>>
    BY <1>2 DEF Stopped, hvars, vars, mainVars, netVars
  <2>2. CASE Observe
    <3>1. ~CacheCleared
      BY <2>1 DEF CacheCleared
    <3>2. overlapped' = (overlapped \/ (mainPc' # "idle" /\ netPc' # "idle"))
      BY <2>2, <3>1 DEF Observe
    <3> QED BY <2>1, <3>2 DEF MeetingNoticed
  <2> QED BY <1>2, <2>1, <2>2 DEF hvars, MeetingNoticed
<1> QED BY <1>1, <1>2 DEF HNext, Next

\* The tables recorded are the ones the network thread installs.
LEMMA TablesStep ==
    ASSUME TablesTyped, TypeOK', [HNext]_hvars
    PROVE  TablesTyped'
<1>1. m_cpes' \in Seq(CpeNode)
  BY DEF TypeOK
<1>2. CASE MeshInstalled /\ Observe
  BY <1>1, <1>2 DEF Observe, TablesTyped
<1>3. CASE OnlineInstalled /\ Observe
  BY <1>1, <1>3 DEF Observe, TablesTyped, OnlineInstalled, MeshInstalled
<1>4. CASE UNCHANGED <<m_cpes, tables>>
  BY <1>4 DEF TablesTyped
<1>5. UNCHANGED m_cpes \/ MeshInstalled \/ OnlineInstalled
  BY DEF HNext, Next, Step, Stopped, hvars, vars, tableVars, Main, MainRun, ReadPacket,
         ReadFails, CacheFind, CacheGet, ScanTable, StoreAnswer, SendPacket, Net, NetRun,
         RecvMeshNotify, RecvOnlineNotify, RecvDropped, RecvRouteData, ClearCache,
         PushNodeInfo, NodeInfoFilled, DelRoutes, InitMeshCpes, AddRoutes,
         InitOnlineCpes, RaceCrash, MeshInstalled, OnlineInstalled
<1>6. CASE UNCHANGED m_cpes /\ ~MeshInstalled /\ ~OnlineInstalled
  BY <1>4, <1>6 DEF HNext, Observe, hvars
<1> QED BY <1>2, <1>3, <1>5, <1>6 DEF HNext, hvars, MeshInstalled, OnlineInstalled,
        vars, netVars

CacheParts == CacheEmptied /\ EntriesSupported /\ LookupInv

\* A step of the main thread: with no update in progress each stage of a lookup
\* works on the table and the cache that the former one saw.
LEMMA MainKeepsCache ==
    ASSUME CacheInv, TypeOK, Main, Observe, ~overlapped, overlapped \in BOOLEAN
    PROVE  CacheParts'
<1> USE DEF CacheInv, LookupInv, CacheParts
<1>1. UNCHANGED <<tableVars, netVars>>
  BY DEF Main, MainRun, ReadPacket, ReadFails, CacheFind, CacheGet, ScanTable,
         StoreAnswer, SendPacket
<1>2. UNCHANGED tables
  BY <1>1 DEF Observe, MeshInstalled, OnlineInstalled, netVars
<1>3. mainPc # "idle" => netPc = "idle" /\ ~scanRaced /\ ~CacheRaced
  BY DEF MeetingNoticed, CacheRaced
<1>4. mainPc # "idle" => packet \in Packet
  BY DEF TypeOK
<1>5. CASE ReadPacket \/ ReadFails
  <2>1. UNCHANGED m_ip2nodeid_cache
    BY <1>5 DEF ReadPacket, ReadFails
  <2>2. mainPc' # "store" /\ mainPc' # "get"
    BY <1>5 DEF ReadPacket, ReadFails, mainVars
  <2>3. mainPc' = "send" => OnlyAcc \/ ~NeedsLookup(packet')
    BY <1>5 DEF ReadPacket, ReadFails, mainVars
  <2> QED BY <1>1, <1>2, <2>1, <2>2, <2>3
          DEF CacheEmptied, EntriesSupported, FoundStays, DestinationFromTable,
              Supported, netVars
<1>6. CASE CacheFind
  BY <1>1, <1>2, <1>3, <1>6
     DEF CacheFind, CacheEmptied, EntriesSupported, FoundStays, DestinationFromTable,
         Supported, netVars
<1>7. CASE CacheGet
  <2>1. packet.ip \in DOMAIN m_ip2nodeid_cache /\ mainPc = "get"
    BY <1>7 DEF FoundStays, CacheGet
  <2>2. destID' = m_ip2nodeid_cache[packet.ip] /\ UNCHANGED <<m_ip2nodeid_cache, packet>>
    BY <1>3, <1>7, <2>1 DEF CacheGet
  <2>3. FromTable(packet, destID')
    BY <1>4, <2>1, <2>2, SupportedIsFromTable DEF EntriesSupported
  <2>4. mainPc' = "store"
    BY <1>7 DEF CacheGet
  <2> QED BY <1>1, <1>2, <2>2, <2>3, <2>4
          DEF CacheEmptied, EntriesSupported, FoundStays, DestinationFromTable,
              Supported, FromTable, netVars
<1>8. CASE ScanTable
  <2>1. destID' = Answer(m_cpes, packet.ip, packet.mac) /\ mainPc' = "store"
    BY <1>3, <1>8 DEF ScanTable
  <2>2. UNCHANGED <<packet, m_ip2nodeid_cache>> /\ mainPc = "scan"
    BY <1>8 DEF ScanTable
  <2>3. packet.mac \in LookupMacs(packet.mac)
    BY <1>4, <2>2 DEF LookupMacs, Packet
  <2>4. FromTable(packet, destID')
    BY <2>1, <2>3 DEF FromTable, TablesTyped
  <2> QED BY <1>1, <1>2, <2>1, <2>2, <2>4
          DEF CacheEmptied, EntriesSupported, FoundStays, DestinationFromTable,
              Supported, FromTable, netVars
<1>9. CASE StoreAnswer
  <2>1. /\ mainPc = "store" /\ mainPc' = "send" /\ netPc = "idle"
        /\ UNCHANGED <<packet, destID>>
    BY <1>3, <1>9 DEF StoreAnswer
  <2>2. FromTable(packet, destID)
    BY <2>1 DEF DestinationFromTable
  <2>3. Supported(packet.ip, destID)
    BY <1>4, <2>1, <2>2, SupportedIsFromTable
  <2>4. \/ UNCHANGED m_ip2nodeid_cache
        \/ /\ Cacheable(destID)
           /\ m_ip2nodeid_cache' = Put(m_ip2nodeid_cache, packet.ip, destID)
    BY <1>3, <1>9, <2>1 DEF StoreAnswer
  <2>5. \A ip \in DOMAIN m_ip2nodeid_cache' :
           /\ Cacheable(m_ip2nodeid_cache'[ip])
           /\ Supported(ip, m_ip2nodeid_cache'[ip])
    <3>1. CASE UNCHANGED m_ip2nodeid_cache
      BY <3>1 DEF EntriesSupported
    <3>2. CASE /\ Cacheable(destID)
               /\ m_ip2nodeid_cache' = Put(m_ip2nodeid_cache, packet.ip, destID)
      BY <2>3, <3>2 DEF EntriesSupported, Put
    <3> QED BY <2>4, <3>1, <3>2
  <2>6. EntriesSupported'
    BY <1>2, <2>5 DEF EntriesSupported, Supported
  <2>7. CacheEmptied' /\ FoundStays'
    BY <1>1, <2>1 DEF CacheEmptied, FoundStays, netVars
  <2>8. DestinationFromTable'
    BY <1>2, <2>1, <2>2 DEF DestinationFromTable, FromTable
  <2> QED BY <2>6, <2>7, <2>8
<1>10. CASE SendPacket
  BY <1>1, <1>2, <1>10
     DEF SendPacket, CacheEmptied, EntriesSupported, FoundStays, DestinationFromTable,
         Supported, netVars
<1> QED BY <1>5, <1>6, <1>7, <1>8, <1>9, <1>10 DEF Main, MainRun

\* A step of the network thread that no packet meets: the cache is cleared before
\* the table changes, and stays empty until it has.
LEMMA NetKeepsCache ==
    ASSUME CacheInv, TypeOK, TypeOK', Net, Observe, ~overlapped',
           overlapped \in BOOLEAN
    PROVE  CacheParts'
<1> USE DEF CacheInv, LookupInv, CacheParts
<1>1. UNCHANGED mainVars
  BY DEF Net, NetRun, RecvMeshNotify, RecvOnlineNotify, RecvDropped, RecvRouteData,
         ClearCache, PushNodeInfo, NodeInfoFilled, DelRoutes, InitMeshCpes,
         AddRoutes, InitOnlineCpes
<1>2. CASE ClearCache
  <2>1. CacheCleared /\ mainPc = "idle"
    BY <1>2 DEF ClearCache, CacheCleared, Observe
  <2>2. m_ip2nodeid_cache' = NoCache
    BY <1>2, <2>1 DEF ClearCache, UsingCache
  <2>3. DOMAIN NoCache = {}
    BY DEF NoCache
  <2>4. mainPc' = "idle"
    BY <1>1, <2>1 DEF mainVars
  <2> QED BY <2>2, <2>3, <2>4
          DEF CacheEmptied, EntriesSupported, FoundStays, DestinationFromTable
<1>3. CASE ~ClearCache
  <2>1. ~CacheCleared
    BY <1>3 DEF CacheCleared, Net, NetRun, RecvMeshNotify, RecvOnlineNotify,
         RecvDropped, RecvRouteData, PushNodeInfo, NodeInfoFilled, DelRoutes,
         InitMeshCpes, AddRoutes, InitOnlineCpes, netVars
  <2>2. ~overlapped /\ (mainPc' = "idle" \/ netPc' = "idle")
    BY <2>1 DEF Observe
  <2>3. UNCHANGED m_ip2nodeid_cache
    BY <1>3 DEF Net, NetRun, RecvMeshNotify, RecvOnlineNotify, RecvDropped,
         RecvRouteData, PushNodeInfo, NodeInfoFilled, DelRoutes, InitMeshCpes,
         AddRoutes, InitOnlineCpes
  <2>4. CASE RecvDropped \/ RecvRouteData
    <3>1. UNCHANGED <<netVars, tableVars>>
      BY <2>4 DEF RecvDropped, RecvRouteData
    <3>2. UNCHANGED tables
      BY <3>1 DEF Observe, MeshInstalled, OnlineInstalled, netVars
    <3> QED BY <1>1, <2>2, <2>3, <3>1, <3>2
            DEF CacheEmptied, EntriesSupported, FoundStays, DestinationFromTable,
                Supported, FromTable, netVars, mainVars
  <2>5. CASE ~(RecvDropped \/ RecvRouteData)
    <3>1. mainPc' = "idle"
      <4>1. netPc # "idle" => mainPc = "idle"
        BY <2>2 DEF MeetingNoticed
      <4>2. netPc # "idle" \/ netPc' # "idle"
        BY <2>5 DEF Net, NetRun, RecvMeshNotify, RecvOnlineNotify, ClearCache,
             PushNodeInfo, NodeInfoFilled, DelRoutes, InitMeshCpes, AddRoutes,
             InitOnlineCpes
      <4> QED BY <1>1, <2>2, <4>1, <4>2 DEF mainVars
    <3>2. FoundStays' /\ DestinationFromTable'
      BY <3>1 DEF FoundStays, DestinationFromTable
    <3>3. CacheEmptied'
      <4>1. netPc' \in {"fill", "delRoutes", "initMeshCpes"} =>
               netPc \in {"fill", "delRoutes", "initMeshCpes"}
        BY <1>3, <2>5 DEF Net, NetRun, RecvMeshNotify, RecvOnlineNotify,
             PushNodeInfo, NodeInfoFilled, DelRoutes, InitMeshCpes, AddRoutes,
             InitOnlineCpes
      <4> QED BY <2>2, <2>3, <4>1 DEF CacheEmptied
    <3>4. EntriesSupported'
      <4>1. CASE MeshInstalled
        <5>1. m_ip2nodeid_cache' = NoCache
          BY <2>2, <2>3, <4>1 DEF CacheEmptied, MeshInstalled
        <5>2. DOMAIN NoCache = {}
          BY DEF NoCache
        <5> QED BY <5>1, <5>2 DEF EntriesSupported
      <4>2. CASE ~MeshInstalled
        <5>1. tables \subseteq tables'
          BY <4>2 DEF Observe
        <5> QED BY <2>2, <2>3, <5>1 DEF EntriesSupported, Supported
      <4> QED BY <4>1, <4>2
    <3> QED BY <3>2, <3>3, <3>4
  <2> QED BY <2>4, <2>5
<1> QED BY <1>2, <1>3

\* A crash, and a stutter, change nothing that CacheInv speaks of.
LEMMA IdleKeepsCache ==
    ASSUME CacheInv, UNCHANGED <<tableVars, m_ip2nodeid_cache, mainVars, netVars>>,
           UNCHANGED <<tables, overlapped>>
    PROVE  CacheParts'
BY DEF CacheInv, CacheParts, CacheEmptied, EntriesSupported, LookupInv, FoundStays,
       DestinationFromTable, Supported, FromTable, tableVars, mainVars, netVars

\* Every step keeps CacheInv.
LEMMA CacheStep ==
    ASSUME CacheInv, TypeOK, TypeOK', overlapped \in BOOLEAN, [HNext]_hvars
    PROVE  CacheInv' /\ overlapped' \in BOOLEAN
<1>1. MeetingNoticed' /\ overlapped' \in BOOLEAN
  BY NoticedStep DEF CacheInv
<1>2. TablesTyped'
  BY TablesStep DEF CacheInv
<1>3. CacheParts'
  <2>1. CASE overlapped'
    BY <2>1
       DEF CacheParts, CacheEmptied, EntriesSupported, LookupInv, FoundStays,
           DestinationFromTable
  <2>2. CASE ~overlapped' /\ Main /\ Observe
    <3>1. ~CacheCleared
      BY <2>2 DEF CacheCleared, Main, MainRun, ReadPacket, ReadFails, CacheFind,
           CacheGet, ScanTable, StoreAnswer, SendPacket, netVars
    <3>2. ~overlapped
      BY <2>2, <3>1 DEF Observe
    <3> QED BY <2>2, <3>2, MainKeepsCache
  <2>3. CASE ~overlapped' /\ Net /\ Observe
    BY <2>3, NetKeepsCache
  <2>4. CASE ~overlapped' /\ (RaceCrash \/ Stopped) /\ Observe
    <3>1. UNCHANGED <<tableVars, m_ip2nodeid_cache, mainVars, netVars>>
      BY <2>4 DEF RaceCrash, Stopped, vars
    <3>2. ~CacheCleared /\ ~MeshInstalled /\ ~OnlineInstalled
      BY <3>1 DEF CacheCleared, MeshInstalled, OnlineInstalled, netVars
    <3>3. UNCHANGED <<tables, overlapped>>
      BY <2>4, <3>1, <3>2 DEF Observe
    <3> QED BY <3>1, <3>3, IdleKeepsCache
  <2>5. CASE UNCHANGED hvars
    <3>1. UNCHANGED <<tableVars, m_ip2nodeid_cache, mainVars, netVars>>
      BY <2>5 DEF hvars, vars
    <3>2. UNCHANGED <<tables, overlapped>>
      BY <2>5 DEF hvars
    <3> QED BY <3>1, <3>2, IdleKeepsCache
  <2> QED BY <2>1, <2>2, <2>3, <2>4, <2>5 DEF HNext, Next, Step
<1> QED BY <1>1, <1>2, <1>3 DEF CacheInv, CacheParts

-----------------------------------------------------------------------------
(* Theorems *)

\* CacheInv holds of every behaviour.
THEOREM CacheInvariant == HSpec => [](CacheInv /\ TypeOK)
<1> DEFINE Inv == CacheInv /\ TypeOK /\ overlapped \in BOOLEAN
<1>1. HInit => Inv
  <2> SUFFICES ASSUME HInit PROVE Inv
    OBVIOUS
  <2>1. TypeOK
    BY InitType DEF HInit
  <2>2. TablesTyped
    BY DEF HInit, Init, TablesTyped
  <2>3. DOMAIN NoCache = {}
    BY DEF NoCache
  <2> QED BY <2>1, <2>2, <2>3
          DEF HInit, Init, CacheInv, MeetingNoticed, CacheEmptied, EntriesSupported,
              LookupInv, FoundStays, DestinationFromTable
<1>2. Inv /\ [HNext]_hvars => Inv'
  <2> SUFFICES ASSUME Inv, [HNext]_hvars PROVE Inv'
    OBVIOUS
  <2>1. [Next]_vars
    BY DEF HNext, hvars
  <2>2. TypeOK'
    BY <2>1, TypeStep
  <2> QED BY <2>2, CacheStep
<1>3. Inv => CacheInv /\ TypeOK
  OBVIOUS
<1> QED BY <1>1, <1>2, <1>3, PTL DEF HSpec

\* Until a packet is in flight during an update, the cache says of an address
\* what a table installed since the last clear says (server.cpp:412, 450, 574).
THEOREM CacheStaysCoherent == HSpec => []CacheCoherent
<1>1. CacheInv => CacheCoherent
  BY DEF CacheInv, EntriesSupported, Supported, CacheCoherent, Quiet
<1> QED BY <1>1, CacheInvariant, PTL

\* And a looked-up packet goes where a scan of such a table would send it: the
\* cache is transparent (server.cpp:351-420).
THEOREM CacheIsTransparent == HSpec => []SentAsTabled
<1>1. CacheInv => SentAsTabled
  BY DEF CacheInv, LookupInv, DestinationFromTable, FromTable, SentAsTabled, Quiet
<1> QED BY <1>1, CacheInvariant, PTL

-----------------------------------------------------------------------------
(* Routes and lookup together *)

\* Until a keepalive answer comes the table in use is the only one that the cache
\* may answer from.
SoleTable == ~onlineSeen => tables = {m_cpes}

\* A mesh update replaces the record of tables, and nothing else installs one
\* before the first keepalive answer does.
LEMMA SoleTableStep ==
    ASSUME SoleTable, onlineSeen \in BOOLEAN, [HNext]_hvars
    PROVE  SoleTable'
<1>1. CASE MeshInstalled /\ Observe
  BY <1>1 DEF Observe, SoleTable
<1>2. CASE OnlineInstalled /\ Observe
  BY <1>2 DEF Observe, SoleTable
<1>3. CASE ~MeshInstalled /\ ~OnlineInstalled /\ Observe /\ HNext
  <2>1. UNCHANGED m_cpes
    BY <1>3 DEF HNext, Next, Step, Stopped, vars, tableVars, Main, MainRun, ReadPacket,
         ReadFails, CacheFind, CacheGet, ScanTable, StoreAnswer, SendPacket, Net, NetRun,
         RecvMeshNotify, RecvOnlineNotify, RecvDropped, RecvRouteData, ClearCache,
         PushNodeInfo, NodeInfoFilled, DelRoutes, InitMeshCpes, AddRoutes,
         InitOnlineCpes, RaceCrash, MeshInstalled, OnlineInstalled
  <2>2. UNCHANGED tables /\ (onlineSeen' = onlineSeen)
    BY <1>3 DEF Observe, OnlineInstalled
  <2> QED BY <2>1, <2>2 DEF SoleTable
<1>4. CASE UNCHANGED hvars
  BY <1>4 DEF hvars, vars, tableVars, SoleTable
<1> QED BY <1>1, <1>2, <1>3, <1>4 DEF HNext

\* SoleTable holds of every behaviour.
LEMMA SoleTableInvariant == HSpec => []SoleTable
<1>1. HInit => SoleTable /\ onlineSeen \in BOOLEAN /\ scrambled \in BOOLEAN
  BY DEF HInit, Init, SoleTable
<1>2. /\ SoleTable /\ onlineSeen \in BOOLEAN /\ scrambled \in BOOLEAN
      /\ [HNext]_hvars
      => (SoleTable /\ onlineSeen \in BOOLEAN /\ scrambled \in BOOLEAN)'
  BY SoleTableStep, ExceptionsGrow
<1> QED BY <1>1, <1>2, PTL DEF HSpec

\* A looked-up packet that a route steered into the tunnel goes to a node that
\* claims its address, unless the kernel has refused to delete that route: the
\* others are those of the table, whatever they steer a node of the table claims,
\* and the destination is the answer of that table (server.cpp:233-300, 351-420).
THEOREM SteeredPacketsArrive == HSpec => []SteeredPacketsReachNode
<1>1. ASSUME CacheInv, TypeOK, RouteInv, SoleTable
      PROVE  SteeredPacketsReachNode
  <2> SUFFICES ASSUME Quiet, netPc = "idle", ~scrambled, ~onlineSeen,
                      mainPc = "send", ~OnlyAcc, NeedsLookup(packet),
                      NEW r \in kroutes \ undeleted, Steers(r, packet.ip)
               PROVE  \E i \in DOMAIN m_cpes :
                         /\ destID = m_cpes[i].node_ID
                         /\ \E mac \in LookupMacs(packet.mac) :
                               Claims(m_cpes[i], packet.ip, mac)
    BY DEF SteeredPacketsReachNode
  <2>1. m_cpes \in Seq(CpeNode)
    BY <1>1 DEF TypeOK
  <2>2. r \in RoutesOf(m_cpes)
    BY <1>1 DEF RouteInv, RoutesFollow
  <2>3. PICK mac \in LookupMacs(packet.mac) : destID = Answer(m_cpes, packet.ip, mac)
    <3>1. FromTable(packet, destID)
      BY <1>1 DEF CacheInv, LookupInv, DestinationFromTable, Quiet
    <3> QED BY <1>1, <3>1 DEF FromTable, SoleTable
  <2>4. \E i \in DOMAIN m_cpes : Claims(m_cpes[i], packet.ip, mac)
    BY <2>1, <2>2, SteeredIsClaimed
  <2>5. PICK i \in DOMAIN m_cpes : /\ IsFirstClaim(m_cpes, i, packet.ip, mac)
                                  /\ destID = m_cpes[i].node_ID
    BY <2>1, <2>3, <2>4, ScanReturnsFirstClaim
  <2> QED BY <2>5 DEF IsFirstClaim
<1> QED BY <1>1, CacheInvariant, RoutesFollowTable, SoleTableInvariant, PTL
=============================================================================
