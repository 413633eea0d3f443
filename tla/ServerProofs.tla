---------------------------- MODULE ServerProofs ----------------------------
(***************************************************************************)
(* Invariants of Server for every table, packet and notification, and      *)
(* whatever the races between the two threads do.                          *)
(***************************************************************************)
EXTENDS ServerHistory, FiniteSetTheorems, WellFoundedInduction, SequenceTheorems, TLAPS

-----------------------------------------------------------------------------
(* The lookup, for every address width and every table *)

\* The powers of two that masks are made of are positive: 2^n is the number of
\* subsets of 1..n.
LEMMA PowerPositive ==
    ASSUME NEW n \in Nat
    PROVE  2^n \in Nat \ {0}
<1>1. IsFiniteSet(1..n) /\ Cardinality(1..n) = n
  BY FS_Interval
<1>2. IsFiniteSet(SUBSET (1..n)) /\ Cardinality(SUBSET (1..n)) = 2^n
  BY <1>1, FS_SUBSET
<1>3. Cardinality(SUBSET (1..n)) \in Nat
  BY <1>2, FS_CardinalityType
<1>4. Cardinality(SUBSET (1..n)) # 0
  BY <1>2, FS_EmptySet
<1> QED BY <1>2, <1>3, <1>4

\* The loop over m_cpes stops at a first entry: a set of positions has a least
\* one, because the initial segments 1..n are well-founded under inclusion.
LEMMA LeastPosition ==
    ASSUME NEW T \in SUBSET Nat, T # {}
    PROVE  \E x \in T : \A y \in T : x =< y
<1> DEFINE F == {1..n : n \in T}
<1>1. F \subseteq FiniteSubsetsOf(Nat)
  <2> SUFFICES ASSUME NEW n \in T PROVE 1..n \in FiniteSubsetsOf(Nat)
    OBVIOUS
  <2>1. IsFiniteSet(1..n)
    BY FS_Interval
  <2> QED BY <2>1 DEF FiniteSubsetsOf
<1>2. F # {}
  OBVIOUS
<1>3. \E X \in F : \A Y \in F : <<Y, X>> \notin StrictSubsetOrdering(Nat)
  <2> HIDE DEF F
  <2> QED BY <1>1, <1>2, FS_StrictSubsetOrderingWellFounded, WFMin
<1>4. PICK x \in T : \A y \in T : <<1..y, 1..x>> \notin StrictSubsetOrdering(Nat)
  BY <1>3
<1>5. ASSUME NEW y \in T, y < x PROVE FALSE
  <2>1. 1..y \in SUBSET Nat /\ 1..x \in SUBSET Nat /\ 1..y \subseteq 1..x
    BY <1>5
  <2>2. x \in 1..x /\ x \notin 1..y
    BY <1>5
  <2>3. <<1..y, 1..x>> \in StrictSubsetOrdering(Nat)
    BY <2>1, <2>2 DEF StrictSubsetOrdering
  <2> QED BY <2>3, <1>4
<1> QED BY <1>5

-----------------------------------------------------------------------------
(* Types *)

\* inet_addr answers with an address, for junk too.
LEMMA InetAddrType ==
    ASSUME NEW text \in Texts
    PROVE  InetAddr(text) \in IPs
<1>1. 2^AddrBits \in Nat \ {0}
  BY PowerPositive, ConstantsAssumption
<1> QED BY <1>1 DEF InetAddr, Texts, IPs, AllOnes, BadText

\* init_mesh_cpes makes a table of nodes of a list of infos.
LEMMA MeshCpesType ==
    ASSUME NEW infos \in Seq(NetInfo)
    PROVE  MeshCpes(infos) \in Seq(CpeNode)
<1>1. \A i \in DOMAIN infos : infos[i] \in NetInfo
  OBVIOUS
<1>2. \A info \in NetInfo : CpeOf(info) \in CpeNode
  BY InetAddrType DEF CpeOf, CpeNode, NetInfo
<1> QED BY <1>1, <1>2 DEF MeshCpes

\* So does handle_online_cpes_notify.
LEMMA OnlineCpesType ==
    ASSUME NEW infos \in Seq(NetInfo)
    PROVE  OnlineCpes(infos) \in Seq(CpeNode)
<1>1. \A i \in DOMAIN infos : infos[i] \in NetInfo
  OBVIOUS
<1>2. \A info \in NetInfo : OnlineCpe(info) \in CpeNode
  BY InetAddrType DEF OnlineCpe, CpeNode, NetInfo
<1> QED BY <1>1, <1>2 DEF OnlineCpes

\* What Euclid's division leaves: the mask of an address clears its remainder.
LEMMA RemainderCleared ==
    ASSUME NEW x \in Nat, NEW d \in Nat \ {0}
    PROVE  /\ x % d \in Nat /\ x % d =< x
           /\ (x - (x % d)) % d = 0
<1>1. x % d \in Nat /\ x % d =< x /\ x = d * (x \div d) + (x % d)
  OBVIOUS
<1>2. \A q \in Int : (d * q) % d = 0
  OBVIOUS
<1> QED BY <1>1, <1>2

\* Masking an address yields a network without host bits, which another masking
\* with the same length leaves alone.
LEMMA MaskedIsNetwork ==
    ASSUME NEW ip \in IPs, NEW len \in 0 .. AddrBits
    PROVE  Mask(ip, len) \in IPs /\ Mask(Mask(ip, len), len) = Mask(ip, len)
<1>1. AddrBits - len \in Nat
  BY ConstantsAssumption
<1> DEFINE d == 2^(AddrBits - len)
<1>2. d \in Nat \ {0}
  BY <1>1, PowerPositive
<1>3. 2^AddrBits \in Nat \ {0}
  BY PowerPositive, ConstantsAssumption
<1>4. ip \in Nat /\ ip =< 2^AddrBits - 1
  BY <1>3 DEF IPs
<1> HIDE DEF d
<1>5. ip % d \in Nat /\ ip % d =< ip /\ (ip - (ip % d)) % d = 0
  BY <1>2, <1>4, RemainderCleared
<1>6. ip - (ip % d) \in Nat /\ ip - (ip % d) =< 2^AddrBits - 1
  BY <1>3, <1>4, <1>5
<1>7. \A x : Mask(x, len) = x - (x % d)
  BY DEF Mask, d
<1> QED BY <1>3, <1>5, <1>6, <1>7 DEF IPs

-----------------------------------------------------------------------------
(* The scan *)

\* The entry that the scan should return from: the first that claims the address.
IsFirstClaim(cpes, i, ip, mac) ==
    /\ i \in DOMAIN cpes
    /\ Claims(cpes[i], ip, mac)
    /\ \A j \in DOMAIN cpes : Claims(cpes[j], ip, mac) => i =< j

\* from[i] is what the loop answers that begins at entry i.
Scans(from, cpes, ip, mac) ==
    from = [i \in DOMAIN cpes |->
              IF Claims(cpes[i], ip, mac) THEN cpes[i].node_ID
              ELSE IF i + 1 \in DOMAIN cpes THEN from[i + 1] ELSE Unclaimed]

\* The recursion of the loop has a solution: the node of the first claim at or
\* behind each entry.
LEMMA ScanExists ==
    ASSUME NEW cpes \in Seq(CpeNode), NEW ip, NEW mac
    PROVE  \E from : Scans(from, cpes, ip, mac)
<1> DEFINE D == DOMAIN cpes
           C(i) == Claims(cpes[i], ip, mac)
           IsFirst(k, i) == k \in D /\ i =< k /\ C(k) /\ \A j \in D : i =< j /\ C(j) => k =< j
           First(i) == CHOOSE k : IsFirst(k, i)
           g == [i \in D |-> IF \E k : IsFirst(k, i) THEN cpes[First(i)].node_ID
                             ELSE Unclaimed]
<1>1. D \subseteq Nat
  OBVIOUS
<1>2. ASSUME NEW i \in D
      PROVE  g[i] = IF C(i) THEN cpes[i].node_ID
                    ELSE IF i + 1 \in D THEN g[i + 1] ELSE Unclaimed
  <2> HIDE DEF C, D
  <2>1. CASE C(i)
    <3>1. IsFirst(i, i)
      BY <1>1, <2>1
    <3>2. \A k : IsFirst(k, i) => k = i
      BY <1>1, <2>1
    <3>3. First(i) = i
      <4> HIDE DEF IsFirst
      <4> QED BY <3>1, <3>2
    <3> QED BY <2>1, <3>1, <3>3
  <2>2. CASE ~C(i)
    <3>1. \A k : IsFirst(k, i) <=> IsFirst(k, i + 1)
      <4>1. \A j \in D : C(j) => (i =< j <=> i + 1 =< j)
        BY <1>1, <2>2
      <4> QED BY <1>1, <4>1
    <3>2. CASE i + 1 \in D
      <4>1. First(i) = First(i + 1)
        <5> HIDE DEF IsFirst
        <5> QED BY <3>1
      <4> HIDE DEF IsFirst, First
      <4> QED BY <2>2, <3>1, <3>2, <4>1
    <3>3. CASE i + 1 \notin D
      <4>1. \A k \in D : ~(i + 1 =< k)
        <5>1. \A k \in D : i + 1 =< k => i + 1 \in D
          BY <1>1 DEF D
        <5> QED BY <3>3, <5>1
      <4>2. ~\E k : IsFirst(k, i)
        BY <3>1, <4>1
      <4> HIDE DEF IsFirst
      <4> QED BY <2>2, <3>3, <4>2
    <3> QED BY <3>2, <3>3
  <2> QED BY <2>1, <2>2
<1>3. Scans(g, cpes, ip, mac)
  <2>1. DOMAIN g = D /\ g = [i \in D |-> g[i]]
    OBVIOUS
  <2> HIDE DEF g
  <2> QED BY <1>2, <2>1 DEF Scans
<1> QED BY <1>3

\* The loop answers with the node of the first claim at or behind an entry.
LEMMA ScanReaches ==
    ASSUME NEW cpes \in Seq(CpeNode), NEW ip, NEW mac, NEW from,
           Scans(from, cpes, ip, mac),
           NEW k \in DOMAIN cpes, \A j \in DOMAIN cpes : j < k => ~Claims(cpes[j], ip, mac)
    PROVE  from[1] = from[k]
<1> DEFINE Bad == {i \in 1 .. k : from[i] # from[k]}
<1>0. k \in Nat \ {0} /\ \A i \in 1 .. k : i \in DOMAIN cpes
  OBVIOUS
<1> SUFFICES ASSUME Bad # {} PROVE FALSE
  BY <1>0
<1> DEFINE Back == {k - i : i \in Bad}
<1>1. Back \in SUBSET Nat /\ Back # {}
  BY <1>0
<1>2. PICK m \in Back : \A y \in Back : m =< y
  <2> HIDE DEF Back
  <2> QED BY <1>1, LeastPosition
<1>3. PICK i \in Bad : m = k - i
  OBVIOUS
<1>4. i < k /\ i + 1 \in 1 .. k
  BY <1>0, <1>3
<1>5. from[i] = from[i + 1]
  <2>1. i \in DOMAIN cpes /\ i + 1 \in DOMAIN cpes /\ ~Claims(cpes[i], ip, mac)
    BY <1>0, <1>4
  <2> QED BY <2>1 DEF Scans
<1>6. i + 1 \in Bad
  BY <1>3, <1>4, <1>5
<1>7. k - (i + 1) \in Back /\ k - (i + 1) < m
  BY <1>0, <1>3, <1>6
<1> HIDE DEF Back
<1>8. m \in Nat /\ m =< k - (i + 1)
  BY <1>1, <1>2, <1>7
<1> QED BY <1>0, <1>4, <1>7, <1>8

\* When some entry claims an address the loop over m_cpes, which returns at once
\* when one does, returns the node of the first, and otherwise the gateway or 0
\* (server.cpp:362-399).
THEOREM ScanReturnsFirstClaim ==
    ASSUME NEW cpes \in Seq(CpeNode), NEW ip, NEW mac
    PROVE  \/ /\ \A i \in DOMAIN cpes : ~Claims(cpes[i], ip, mac)
              /\ Answer(cpes, ip, mac) = Unclaimed
           \/ \E i \in DOMAIN cpes : /\ IsFirstClaim(cpes, i, ip, mac)
                                     /\ Answer(cpes, ip, mac) = cpes[i].node_ID
<1> DEFINE from == CHOOSE f : Scans(f, cpes, ip, mac)
<1>1. Scans(from, cpes, ip, mac)
  BY ScanExists
<1>2. Answer(cpes, ip, mac) = IF cpes = <<>> THEN Unclaimed ELSE from[1]
  BY DEF Answer, Scans
<1> HIDE DEF from
<1>3. CASE cpes = <<>>
  <2>1. DOMAIN cpes = {}
    BY <1>3
  <2> QED BY <1>2, <1>3, <2>1
<1>4. CASE cpes # <<>> /\ \A i \in DOMAIN cpes : ~Claims(cpes[i], ip, mac)
  <2> DEFINE n == Len(cpes)
  <2>1. n \in DOMAIN cpes /\ n + 1 \notin DOMAIN cpes
    BY <1>4
  <2>2. from[1] = from[n]
    <3> HIDE DEF n
    <3> QED BY <1>1, <1>4, <2>1, ScanReaches
  <2>3. from[n] = Unclaimed
    <3> HIDE DEF n
    <3> QED BY <1>1, <1>4, <2>1 DEF Scans
  <2> QED BY <1>2, <1>4, <2>2, <2>3
<1>5. CASE \E i \in DOMAIN cpes : Claims(cpes[i], ip, mac)
  <2> DEFINE T == {i \in DOMAIN cpes : Claims(cpes[i], ip, mac)}
  <2>1. T \in SUBSET Nat /\ T # {}
    BY <1>5
  <2>2. PICK k \in T : \A j \in T : k =< j
    <3> HIDE DEF T
    <3> QED BY <2>1, LeastPosition
  <2>3. IsFirstClaim(cpes, k, ip, mac)
    BY <2>2 DEF IsFirstClaim
  <2>4. k \in DOMAIN cpes /\ \A j \in DOMAIN cpes : j < k => ~Claims(cpes[j], ip, mac)
    BY <2>1, <2>2
  <2>5. from[1] = from[k]
    BY <1>1, <2>4, ScanReaches
  <2>6. from[k] = cpes[k].node_ID
    BY <1>1, <2>2 DEF Scans
  <2>7. cpes # <<>>
    BY <1>5
  <2> QED BY <1>2, <2>3, <2>4, <2>5, <2>6, <2>7
<1> QED BY <1>3, <1>4, <1>5

\* The answer is the id of a node, the gateway, or 0.
LEMMA AnswerType ==
    ASSUME NEW cpes \in Seq(CpeNode), NEW ip, NEW mac
    PROVE  Answer(cpes, ip, mac) \in NodeIDs \cup {0, GatewayID}
<1>1. Unclaimed \in {0, GatewayID}
  BY DEF Unclaimed
<1>2. \A i \in DOMAIN cpes : cpes[i] \in CpeNode
  OBVIOUS
<1>3. \A i \in DOMAIN cpes : cpes[i].node_ID \in NodeIDs
  BY <1>2 DEF CpeNode
<1>4. \A i : IsFirstClaim(cpes, i, ip, mac) => i \in DOMAIN cpes
  BY DEF IsFirstClaim
<1> QED BY <1>1, <1>3, <1>4, ScanReturnsFirstClaim

-----------------------------------------------------------------------------
(* Routes and lookup *)

\* An address that a route of a table steers into the tunnel is claimed by a
\* node of that table other than this one: add_route_for_nodes and
\* getNodeIDFromIP read a subnet alike (server.cpp:243-263, 370-389).
THEOREM SteeredIsClaimed ==
    ASSUME NEW cpes \in Seq(CpeNode), NEW ip, NEW mac,
           NEW r \in RoutesOf(cpes), Steers(r, ip)
    PROVE  \E i \in DOMAIN cpes : cpes[i].node_ID # UserID /\ Claims(cpes[i], ip, mac)
<1>1. PICK i \in DOMAIN cpes :
          /\ cpes[i].node_ID # UserID
          /\ \E s \in cpes[i].node_subnet : Usable(s) /\ r = RouteTo(s)
  BY DEF RoutesOf
<1>2. PICK s \in cpes[i].node_subnet : Usable(s) /\ r = RouteTo(s)
  BY <1>1
<1>3. InSubnet(s, ip)
  BY <1>2 DEF InSubnet, Steers, RouteTo
<1> QED BY <1>1, <1>3 DEF Claims

\* The converse, for the nodes that are claimed by a subnet: its item is one that
\* the kernel takes, because only a network without host bits ever matches.
THEOREM ClaimedIsSteered ==
    ASSUME NEW cpes \in Seq(CpeNode), NEW ip \in IPs,
           NEW i \in DOMAIN cpes, cpes[i].node_ID # UserID,
           NEW s \in cpes[i].node_subnet, InSubnet(s, ip)
    PROVE  RouteTo(s) \in RoutesOf(cpes) /\ Steers(RouteTo(s), ip)
<1>1. s.len \in 0 .. AddrBits /\ InetAddr(s.net) = Mask(ip, s.len)
  BY DEF InSubnet, Usable
<1>2. RouteTo(s).net = Mask(ip, s.len) /\ RouteTo(s).len = s.len
  BY <1>1 DEF RouteTo
<1>3. RouteTo(s) \in Route
  BY <1>1, MaskedIsNetwork DEF Route, RouteTo
<1>4. KernelAccepts(RouteTo(s))
  BY <1>1, <1>2, MaskedIsNetwork DEF KernelAccepts
<1>5. Steers(RouteTo(s), ip)
  BY <1>2 DEF Steers
<1>6. Usable(s)
  BY DEF InSubnet
<1> QED BY <1>3, <1>4, <1>5, <1>6 DEF RoutesOf

\* Together: the routes of a table cover the addresses that the subnets of its
\* other nodes claim, and no others.
LEMMA RoutesAreExact ==
    ASSUME NEW cpes \in Seq(CpeNode), NEW ip \in IPs
    PROVE  (\E r \in RoutesOf(cpes) : Steers(r, ip)) <=>
               \E i \in DOMAIN cpes :
                   /\ cpes[i].node_ID # UserID
                   /\ \E s \in cpes[i].node_subnet : InSubnet(s, ip)
<1>1. ASSUME NEW r \in RoutesOf(cpes), Steers(r, ip)
      PROVE  \E i \in DOMAIN cpes :
                 /\ cpes[i].node_ID # UserID
                 /\ \E s \in cpes[i].node_subnet : InSubnet(s, ip)
  BY <1>1 DEF RoutesOf, InSubnet, Steers, RouteTo
<1> QED BY <1>1, ClaimedIsSteered

-----------------------------------------------------------------------------
(* The cache as a partial function *)

\* Well-formed caches with answers in S.
CacheOver(cache, S) ==
    /\ DOMAIN cache \subseteq IPs
    /\ \A ip \in DOMAIN cache : cache[ip] \in S

\* Remembering one answer keeps a cache well-formed.
LEMMA PutKeeps ==
    ASSUME NEW cache, NEW S, CacheOver(cache, S), NEW ip \in IPs, NEW id \in S
    PROVE  CacheOver(Put(cache, ip, id), S)
BY DEF CacheOver, Put

\* So does losing some.
LEMMA TornKeeps ==
    ASSUME NEW cache, NEW S, CacheOver(cache, S), NEW left \in Torn(cache)
    PROVE  CacheOver(left, S)
BY DEF CacheOver, Torn

\* The cache that a mesh notification leaves is well-formed.
LEMMA NoCacheOver == \A S : CacheOver(NoCache, S)
BY DEF CacheOver, NoCache

\* Only routes that the kernel can hold are added, also by a raced update.
LEMMA RoutesType ==
    ASSUME NEW cpes, NEW items
    PROVE  RoutesOf(cpes) \subseteq Route /\ MixedRoutes(items) \subseteq Route
BY DEF RoutesOf, MixedRoutes

-----------------------------------------------------------------------------
(* Type correctness *)

\* The state before the first packet and notification is well-typed.
LEMMA InitType == Init => TypeOK
<1>1. DOMAIN NoCache = {}
  BY DEF NoCache
<1>2. <<>> \in Seq(CpeNode) /\ <<>> \in Seq(NetInfo)
  OBVIOUS
<1> QED BY <1>1, <1>2 DEF Init, TypeOK, MainPcs, NetPcs, AnyID

\* Every step of the main thread keeps the types: a looked-up destination is the
\* id of a node, the gateway or 0 (server.cpp:306-470).
LEMMA MainType ==
    ASSUME TypeOK, Main, MarkRace, proc = "running"
    PROVE  TypeOK'
<1>1. CacheOver(m_ip2nodeid_cache, AnyID)
  BY DEF TypeOK, CacheOver
<1>2. CacheOver(m_ip2nodeid_cache', AnyID)
  <2>1. mainPc # "idle" => packet \in Packet /\ packet.ip \in IPs
    BY DEF TypeOK, Packet
  <2>2. CASE ReadPacket \/ ReadFails \/ CacheFind \/ ScanTable \/ SendPacket
    BY <1>1, <2>2 DEF ReadPacket, ReadFails, CacheFind, ScanTable, SendPacket, CacheOver
  <2>3. CASE CacheGet
    <3>1. 0 \in AnyID
      BY DEF AnyID
    <3>2. packet.ip \in IPs
      BY <2>1, <2>3 DEF CacheGet
    <3> QED BY <1>1, <2>3, <3>1, <3>2, PutKeeps, TornKeeps DEF CacheGet
  <2>4. CASE StoreAnswer
    <3>1. destID \in AnyID /\ packet.ip \in IPs
      BY <2>1, <2>4 DEF StoreAnswer, TypeOK
    <3>2. CacheOver(Put(m_ip2nodeid_cache, packet.ip, destID), AnyID)
      BY <1>1, <3>1, PutKeeps
    <3> QED BY <1>1, <2>4, <3>2, TornKeeps DEF StoreAnswer
  <2> QED BY <2>2, <2>3, <2>4 DEF Main, MainRun
<1>3. scanRaced' \in BOOLEAN
  BY DEF MarkRace, TypeOK
<1>4. /\ DOMAIN m_ip2nodeid_cache' \subseteq IPs
      /\ \A ip \in DOMAIN m_ip2nodeid_cache' : m_ip2nodeid_cache'[ip] \in AnyID
  BY <1>2 DEF CacheOver
<1>5. UNCHANGED <<tableVars, netVars>>
  BY DEF Main, MainRun, ReadPacket, ReadFails, CacheFind, CacheGet, ScanTable,
         StoreAnswer, SendPacket
<1> USE <1>3, <1>4, <1>5 DEF tableVars, kernelVars, netVars, TypeOK
<1>6. CASE ReadPacket
  <2>1. packet' \in Packet
    BY <1>6, ServerAssumption DEF ReadPacket
  <2>2. \A p : FloodDest(p) \in {0, BroadcastID}
    BY DEF FloodDest
  <2> QED BY <1>6, <2>1, <2>2 DEF ReadPacket, MainPcs, AnyID, NoPacket
<1>7. CASE ReadFails
  BY <1>7 DEF ReadFails, mainVars
<1>8. CASE CacheFind
  BY <1>8 DEF CacheFind, MainPcs
<1>9. CASE CacheGet
  <2>1. destID' \in AnyID
    BY <1>9 DEF CacheGet, AnyID
  <2> QED BY <1>9, <2>1 DEF CacheGet, MainPcs
<1>10. CASE ScanTable
  <2>1. destID' \in AnyID
    BY <1>10, AnswerType DEF ScanTable, AnyID
  <2> QED BY <1>10, <2>1 DEF ScanTable, MainPcs
<1>11. CASE StoreAnswer
  BY <1>11 DEF StoreAnswer, MainPcs
<1>12. CASE SendPacket
  BY <1>12 DEF SendPacket, MainPcs, AnyID
<1> QED BY <1>6, <1>7, <1>8, <1>9, <1>10, <1>11, <1>12 DEF Main, MainRun

\* So does every step of the network thread: the table is made of the entries of
\* one notification, the routes are ones the kernel can hold
\* (server.cpp:472-659).
LEMMA NetType ==
    ASSUME TypeOK, Net, MarkRace, proc = "running"
    PROVE  TypeOK'
<1>1. scanRaced' \in BOOLEAN
  BY DEF MarkRace, TypeOK
<1>2. UNCHANGED mainVars
  BY DEF Net, NetRun, RecvMeshNotify, RecvOnlineNotify, RecvDropped, RecvRouteData,
         ClearCache, PushNodeInfo, NodeInfoFilled, DelRoutes, InitMeshCpes,
         AddRoutes, InitOnlineCpes
<1>3. \A f \in Frames : f.nodes \in Seq(NetInfo)
  <2>1. Frames \subseteq Frame
    BY ServerAssumption
  <2>2. \A f \in Frame : f.nodes \in Seq(NetInfo)
    BY DEF Frame
  <2> QED BY <2>1, <2>2
<1>4. CacheOver(m_ip2nodeid_cache, AnyID)
  BY DEF TypeOK, CacheOver
<1> USE <1>1, <1>2 DEF tableVars, kernelVars, mainVars, netVars, TypeOK
<1>5. CASE RecvMeshNotify
  BY <1>3, <1>5 DEF RecvMeshNotify, NetPcs
<1>6. CASE RecvOnlineNotify
  BY <1>3, <1>6 DEF RecvOnlineNotify, NetPcs
<1>7. CASE RecvDropped
  BY <1>7 DEF RecvDropped
<1>8. CASE RecvRouteData
  BY <1>8 DEF RecvRouteData
<1>9. CASE ClearCache
  <2>1. CacheOver(m_ip2nodeid_cache', AnyID)
    BY <1>4, <1>9, NoCacheOver, TornKeeps DEF ClearCache
  <2> QED BY <1>9, <2>1 DEF ClearCache, NetPcs, CacheOver
<1>10. CASE PushNodeInfo
  <2>1. Head(pending) \in NetInfo /\ Tail(pending) \in Seq(NetInfo)
    BY <1>10 DEF PushNodeInfo
  <2>2. nodeInfoList' \in Seq(NetInfo)
    BY <1>10, <2>1 DEF PushNodeInfo
  <2> QED BY <1>10, <2>1, <2>2 DEF PushNodeInfo
<1>11. CASE NodeInfoFilled
  BY <1>11 DEF NodeInfoFilled, NetPcs
<1>12. CASE DelRoutes
  <2>1. kroutes' \subseteq kroutes
    BY <1>12 DEF DelRoutes
  <2>2. undeleted' \subseteq undeleted \cup kroutes
    BY <1>12 DEF DelRoutes, Refusals
  <2> QED BY <1>12, <2>1, <2>2 DEF DelRoutes, NetPcs
<1>13. CASE InitMeshCpes
  BY <1>13, MeshCpesType DEF InitMeshCpes, NetPcs
<1>14. CASE AddRoutes
  <2>1. kroutes' \subseteq kroutes \cup Route
    BY <1>14, RoutesType DEF AddRoutes
  <2>2. unadded' \subseteq unadded \cup Route
    BY <1>14, RoutesType DEF AddRoutes, Refusals
  <2> QED BY <1>14, <2>1, <2>2 DEF AddRoutes, NetPcs
<1>15. CASE InitOnlineCpes
  BY <1>15, OnlineCpesType DEF InitOnlineCpes, NetPcs
<1> QED BY <1>5, <1>6, <1>7, <1>8, <1>9, <1>10, <1>11, <1>12, <1>13, <1>14, <1>15
        DEF Net, NetRun

\* A crash, and the stuttering after the end of the process, change no type.
LEMMA OtherType ==
    ASSUME TypeOK, (RaceCrash /\ MarkRace) \/ UNCHANGED vars
    PROVE  TypeOK'
<1>1. CASE RaceCrash /\ MarkRace
  BY <1>1 DEF RaceCrash, MarkRace, TypeOK, tableVars, kernelVars, mainVars, netVars
<1>2. CASE UNCHANGED vars
  BY <1>2 DEF vars, tableVars, kernelVars, mainVars, netVars, TypeOK
<1> QED BY <1>1, <1>2

\* Every step of Server keeps the types.
LEMMA TypeStep ==
    ASSUME TypeOK, [Next]_vars
    PROVE  TypeOK'
<1>1. CASE Step
  BY <1>1, MainType, NetType, OtherType DEF Step
<1>2. CASE Stopped \/ UNCHANGED vars
  BY <1>2, OtherType DEF Stopped
<1> QED BY <1>1, <1>2 DEF Next

\* Whatever the threads do to each other, the table, the cache, the routes and
\* the destination in flight stay what their types say: in particular operator[]
\* and raced scans only ever yield the id of a node, the gateway or 0.
THEOREM TypeCorrect == Spec => []TypeOK
BY InitType, TypeStep, PTL DEF Spec

-----------------------------------------------------------------------------
(* The gateway is never remembered *)

\* What a cache entry may say: 0 after a lost race, a node, never the gateway.
Remembered == {id \in AnyID : id = GatewayID => GatewayID = 0}

\* No step remembers the gateway: the two guarded stores do not, operator[]
\* inserts 0, and a torn map only loses entries.
LEMMA RememberedStep ==
    ASSUME TypeOK, CacheOver(m_ip2nodeid_cache, Remembered), [Next]_vars
    PROVE  CacheOver(m_ip2nodeid_cache', Remembered)
<1>1. CASE CacheGet
  <2>1. 0 \in Remembered
    BY DEF Remembered, AnyID
  <2>2. packet.ip \in IPs
    BY <1>1 DEF CacheGet, TypeOK, Packet
  <2> QED BY <1>1, <2>1, <2>2, PutKeeps, TornKeeps DEF CacheGet
<1>2. CASE StoreAnswer
  <2>1. packet.ip \in IPs /\ destID \in AnyID
    BY <1>2 DEF StoreAnswer, TypeOK, Packet
  <2>2. Cacheable(destID) => destID \in Remembered
    BY <2>1 DEF Cacheable, Remembered
  <2> QED BY <1>2, <2>1, <2>2, PutKeeps, TornKeeps DEF StoreAnswer
<1>3. CASE ClearCache
  BY <1>3, NoCacheOver, TornKeeps DEF ClearCache
<1>4. CASE UNCHANGED m_ip2nodeid_cache
  BY <1>4
<1>5. CacheGet \/ StoreAnswer \/ ClearCache \/ UNCHANGED m_ip2nodeid_cache
  BY DEF Next, Step, Stopped, vars, Main, MainRun, ReadPacket, ReadFails, CacheFind,
         ScanTable, SendPacket, Net, NetRun, RecvMeshNotify, RecvOnlineNotify,
         RecvDropped, RecvRouteData, PushNodeInfo, NodeInfoFilled, DelRoutes,
         InitMeshCpes, AddRoutes, InitOnlineCpes, RaceCrash
<1> QED BY <1>1, <1>2, <1>3, <1>4, <1>5

\* No interleaving, and no data race, makes the cache answer with the gateway:
\* a node that appears later is found by the next scan (server.cpp:412, 450).
THEOREM GatewayStaysUncached == Spec => []GatewayNeverCached
<1>1. Init => CacheOver(m_ip2nodeid_cache, Remembered)
  BY NoCacheOver DEF Init
<1>2. TypeOK /\ CacheOver(m_ip2nodeid_cache, Remembered) /\ [Next]_vars
        => CacheOver(m_ip2nodeid_cache, Remembered)'
  BY RememberedStep DEF CacheOver
<1>3. CacheOver(m_ip2nodeid_cache, Remembered) => GatewayNeverCached
  BY DEF CacheOver, Remembered, GatewayNeverCached
<1> QED BY <1>1, <1>2, <1>3, TypeCorrect, PTL DEF Spec

-----------------------------------------------------------------------------
(* Acceleration only *)

\* With onlyAcc the main thread never enters the lookup, so that no access of
\* the two threads conflicts.
OneExitInv ==
    OnlyAcc => /\ OneExit
               /\ mainPc \in {"idle", "send"}
               /\ proc # "crashed"

\* OneExitInv is inductive.
LEMMA OneExitStep ==
    ASSUME OneExitInv, [HNext]_hvars
    PROVE  OneExitInv'
<1> SUFFICES ASSUME OnlyAcc PROVE OneExitInv'
  BY DEF OneExitInv
<1> USE DEF OneExitInv, OneExit
<1>1. CASE Step /\ Observe
  <2>1. ~scrambled'
    <3>1. mainPc' # "scan"
      BY <1>1 DEF Step, Main, MainRun, ReadPacket, ReadFails, CacheFind, CacheGet,
           ScanTable, StoreAnswer, SendPacket, Net, NetRun, RecvMeshNotify,
           RecvOnlineNotify, RecvDropped, RecvRouteData, ClearCache, PushNodeInfo,
           NodeInfoFilled, DelRoutes, InitMeshCpes, AddRoutes, InitOnlineCpes,
           RaceCrash, mainVars
    <3> QED BY <1>1, <3>1 DEF Observe
  <2>2. CASE Main
    BY <1>1, <2>1, <2>2 DEF Main, MainRun, ReadPacket, ReadFails, CacheFind, CacheGet,
         ScanTable, StoreAnswer, SendPacket, mainVars, Step
  <2>3. CASE Net
    BY <1>1, <2>1, <2>3 DEF Step, Net, NetRun, RecvMeshNotify, RecvOnlineNotify,
         RecvDropped, RecvRouteData, ClearCache, PushNodeInfo, NodeInfoFilled,
         DelRoutes, InitMeshCpes, AddRoutes, InitOnlineCpes, mainVars, UsingCache
  <2>4. CASE RaceCrash
    BY <2>4 DEF RaceCrash, UsingCache
  <2> QED BY <1>1, <2>2, <2>3, <2>4 DEF Step
<1>2. CASE Stopped /\ Observe
  BY <1>2 DEF Stopped, Observe, vars, mainVars
<1>3. CASE UNCHANGED hvars
  BY <1>3 DEF hvars, vars, mainVars
<1> QED BY <1>1, <1>2, <1>3 DEF HNext, Next

\* An acceleration-only node sends everything to the gateway and has no data
\* race to lose, for every sequence of notifications (server.cpp:337).
THEOREM OneExitOnly == HSpec => []OneExit
<1>1. HInit => OneExitInv
  BY DEF HInit, Init, OneExitInv, OneExit
<1>2. OneExitInv => OneExit
  BY DEF OneExitInv, OneExit
<1>3. OneExitInv /\ [HNext]_hvars => OneExitInv'
  BY OneExitStep
<1> QED BY <1>1, <1>2, <1>3, PTL DEF HSpec
=============================================================================
