---------------------------- MODULE TunnelProofs ----------------------------
(***************************************************************************)
(* The lengths of Tunnel for every number of nodes, every frame a device   *)
(* may hand over and every session message.                                *)
(***************************************************************************)
EXTENDS Tunnel, TLAPS

\* What is in the transport was read from a device whole or as PACK_MTU bytes,
\* was long enough, and says its length.
MessagesFramed ==
    \A m \in net :
        /\ m.body.of \in Lengths
        /\ m.body.n = Read(m.body.of) /\ m.body.n >= MINIMUM
        /\ m.len = m.body.n + HEADER
        /\ m.tap => \E peer \in Nodes : tapMode[peer]

Inv ==
    /\ tapMode \in [Nodes -> BOOLEAN]
    /\ DOMAIN proc = Nodes /\ DOMAIN written = Nodes
    /\ MessagesFramed
    /\ WrittenAsRead /\ PeersKeepNodeUp /\ BodyWithinMessage

\* A read never returns more than PACK_MTU bytes.
LEMMA ReadBounded ==
    ASSUME NEW len \in Nat
    PROVE  Read(len) \in Nat /\ Read(len) <= 1500
<1> QED BY DEF Read, PACK_MTU

\* 16 bits keep a length that fits them.
LEMMA ShortLengthKept == \A k \in UInt16 : AsUInt16(k) = k
<1>1. ASSUME NEW i \in Int, 0 <= i, i < 65536
      PROVE  AsUInt16(i) = i
  BY <1>1 DEF AsUInt16
<1>2. ASSUME NEW k \in UInt16
      PROVE  AsUInt16(k) = k
  <2>1. k \in Int /\ 0 <= k /\ k < 65536
    BY DEF UInt16
  <2> QED BY <1>1, <2>1
<1> QED BY <1>2

\* A read length and its header fit 16 bits, so that the write is of exactly the
\* bytes read, and of no fewer than any kernel asks for.
LEMMA WritesBody ==
    ASSUME MessagesFramed, NEW m \in net
    PROVE  ToWrite(m) = m.body.n /\ \A tapDevice \in BOOLEAN : KernelTakes(tapDevice, m)
<1> DEFINE read == m.body.n
<1>1. /\ m.body.of \in Nat
      /\ read = Read(m.body.of) /\ read >= 20
      /\ m.len = read + 4
  BY TunnelAssumption DEF MessagesFramed, MINIMUM, HEADER
<1>2. Read(m.body.of) \in Nat /\ Read(m.body.of) <= 1500
  BY <1>1, ReadBounded
<1>3. read \in Nat /\ read <= 1500
  BY <1>1, <1>2
<1> HIDE DEF read
<1>4. read + 4 \in UInt16
  <2>1. read \in 0 .. 1500
    BY <1>3
  <2> QED BY <2>1 DEF UInt16
<1>5. AsUInt16(m.len) = read + 4
  BY <1>1, <1>4, ShortLengthKept
<1>6. ToWrite(m) = read
  BY <1>3, <1>5 DEF ToWrite, HEADER
<1>7. read >= 14 /\ read >= 1
  BY <1>1, <1>3
<1>8. \A tapDevice \in BOOLEAN : KernelTakes(tapDevice, m)
  BY <1>6, <1>7 DEF KernelTakes
<1> QED BY <1>6, <1>8 DEF read

\* A body that is parsed lies within its message, for every length a message can
\* have: what 16 bits keep of a length is no more than the length.
LEMMA FramedBody ==
    ASSUME NEW m \in SessionMessages, Framed(m)
    PROVE  LET body == AsUInt16(m.len) - HEADER
           IN  /\ body > 0 /\ body + HEADER <= m.len
               /\ m.len \in UInt16 => body + HEADER = m.len
<1>1. m.len \in Nat /\ m.pack_len \in UInt16
  BY TunnelAssumption
<1>2. AsUInt16(m.len) \in Nat /\ AsUInt16(m.len) <= m.len
  BY <1>1 DEF AsUInt16
<1>3. m.len \in UInt16 => AsUInt16(m.len) = m.len
  BY ShortLengthKept
<1>4. AsUInt16(m.len) > HEADER
  BY DEF Framed
<1> QED BY <1>1, <1>2, <1>3, <1>4 DEF HEADER

\* Every step keeps Inv.
LEMMA InvStep ==
    ASSUME Inv, [Next]_vars
    PROVE  Inv'
<1> USE DEF Inv
<1>1. ASSUME NEW n \in Nodes, SendFrame(n) PROVE Inv'
  <2>1. PICK len \in Lengths, to \in Nodes \ {n} :
            /\ Read(len) >= MINIMUM
            /\ net' = net \cup {[to |-> to, tap |-> tapMode[n],
                                 body |-> [of |-> len, n |-> Read(len)],
                                 len |-> Read(len) + HEADER]}
    BY <1>1 DEF SendFrame
  <2>2. UNCHANGED <<tapMode, written, parsed, proc>>
    BY <1>1 DEF SendFrame
  <2>3. MessagesFramed'
    BY <2>1, <2>2 DEF MessagesFramed
  <2> QED BY <2>2, <2>3 DEF WrittenAsRead, PeersKeepNodeUp, BodyWithinMessage
<1>2. ASSUME NEW n \in Nodes, ReadsShort(n) \/ LosesDevice(n) PROVE Inv'
  <2>1. UNCHANGED <<tapMode, net, written, parsed>>
    BY <1>2 DEF ReadsShort, LosesDevice
  <2>2. PICK why \in {"shortRead", "deviceLost"} : proc' = [proc EXCEPT ![n] = why]
    BY <1>2 DEF ReadsShort, LosesDevice, Exits
  <2>3. PeersKeepNodeUp'
    BY <2>1, <2>2 DEF PeersKeepNodeUp
  <2> QED BY <2>1, <2>2, <2>3 DEF MessagesFramed, WrittenAsRead, BodyWithinMessage
<1>3. ASSUME NEW n \in Nodes, WriteFrame(n) PROVE Inv'
  <2>1. PICK m \in net :
            written' = [written EXCEPT ![n] = [of |-> m.body.of, n |-> ToWrite(m)]]
    BY <1>3 DEF WriteFrame
  <2>2. UNCHANGED <<tapMode, net, parsed, proc>>
    BY <1>3 DEF WriteFrame
  <2>3. ToWrite(m) = Read(m.body.of)
    BY WritesBody DEF MessagesFramed
  <2>4. WrittenAsRead'
    BY <2>1, <2>3 DEF WrittenAsRead
  <2> QED BY <2>1, <2>2, <2>4 DEF MessagesFramed, PeersKeepNodeUp, BodyWithinMessage
<1>4. ASSUME NEW n \in Nodes, WriteRefused(n) PROVE Inv'
  <2>1. PICK m \in net : KernelRefuses(tapMode[n], m)
    BY <1>4 DEF WriteRefused
  <2>2. UNCHANGED <<tapMode, net, written, parsed>>
    BY <1>4 DEF WriteRefused
  <2>3. proc' = [proc EXCEPT ![n] = "refused"]
    BY <1>4 DEF WriteRefused, Exits
  <2>4. tapMode[n] \in BOOLEAN
    OBVIOUS
  <2>5. ~tapMode[n] /\ m.tap
    BY <2>1, <2>4, WritesBody DEF KernelRefuses
  <2>6. \E peer \in Nodes : tapMode[peer]
    BY <2>5 DEF MessagesFramed
  <2>7. PeersKeepNodeUp'
    BY <2>2, <2>3, <2>5, <2>6 DEF PeersKeepNodeUp
  <2> QED BY <2>2, <2>3, <2>7 DEF MessagesFramed, WrittenAsRead, BodyWithinMessage
<1>5. ASSUME NEW n \in Nodes, ParseBody(n) PROVE Inv'
  <2>1. PICK m \in SessionMessages :
            Framed(m) /\ parsed' = [len |-> m.len, body |-> AsUInt16(m.len) - HEADER]
    BY <1>5 DEF ParseBody
  <2>2. UNCHANGED <<tapMode, net, written, proc>>
    BY <1>5 DEF ParseBody
  <2>3. BodyWithinMessage'
    BY <2>1, FramedBody DEF BodyWithinMessage
  <2> QED BY <2>2, <2>3 DEF MessagesFramed, WrittenAsRead, PeersKeepNodeUp
<1>6. CASE Lose
  BY <1>6 DEF Lose, MessagesFramed, WrittenAsRead, PeersKeepNodeUp, BodyWithinMessage
<1>7. CASE UNCHANGED vars
  BY <1>7 DEF vars, MessagesFramed, WrittenAsRead, PeersKeepNodeUp, BodyWithinMessage
<1> QED BY <1>1, <1>2, <1>3, <1>4, <1>5, <1>6, <1>7 DEF Next, Node, DropSession, Done

\* Inv holds of every behaviour.
LEMMA InvHolds == Spec => []Inv
<1>1. Init => Inv
  BY DEF Init, Inv, MessagesFramed, WrittenAsRead, PeersKeepNodeUp, BodyWithinMessage
<1> QED BY <1>1, InvStep, PTL DEF Spec

\* A device takes what another read, cut at PACK_MTU and nowhere else, however the
\* transport loses, repeats and reorders (server.cpp:308-327, 483).
THEOREM FramesArriveAsRead == Spec => []WrittenAsRead
<1>1. Inv => WrittenAsRead
  BY DEF Inv
<1> QED BY <1>1, InvHolds, PTL

\* Among nodes of one mode none exits over a message of another
\* (server.cpp:320, 483-488).
THEOREM NodesStayUp == Spec => []PeersKeepNodeUp
<1>1. Inv => PeersKeepNodeUp
  BY DEF Inv
<1> QED BY <1>1, InvHolds, PTL

\* No session body reaches beyond its message (server.cpp:492-508).
THEOREM BodiesStayWithin == Spec => []BodyWithinMessage
<1>1. Inv => BodyWithinMessage
  BY DEF Inv
<1> QED BY <1>1, InvHolds, PTL
=============================================================================
