------------------------------- MODULE Tunnel -------------------------------
(***************************************************************************)
(* A frame on its way from one node's device to another's: on_read_tun_tap *)
(* puts its length before it, the transport carries the message, and       *)
(* handle_route_data_recv of src/main/server.cpp writes what follows the   *)
(* first 4 bytes.  Beside it, the framing of session messages.  Both       *)
(* callbacks get an int length and hand it on as a uint16_t.               *)
(*                                                                         *)
(* The first n bytes of a frame are [of, n].  The transport may lose,      *)
(* repeat and reorder messages.  A node that exits does not come back.     *)
(***************************************************************************)
EXTENDS Integers, FiniteSets

CONSTANTS
    Nodes,
    Lengths,          \* of the frames that devices hand over
    SessionMessages,  \* of the control plane: their length and their pack_len
    InFlight,         \* bound: messages that the transport holds at once
    Nothing           \* nothing written, or nothing parsed, yet

UInt16 == 0 .. 65535

\* Mutant: the callbacks hand the length on in one byte.
AsUInt8(n) == n % 256

AsUInt16(n) == n % 65536

ASSUME TunnelAssumption ==
    /\ Lengths \subseteq Nat \ {0}
    /\ SessionMessages \subseteq [len : Nat, pack_len : UInt16]

PACK_MTU == 1500
HEADER   == 4       \* the int before a frame, and before a session's body
MINIMUM  == 20      \* a read of fewer bytes ends the process

VARIABLES
    tapMode,    \* m_config.tapMode of each node: fixed, but nodes may differ
    net,        \* messages in the transport
    written,    \* the last slice each device took
    parsed,     \* the last session message whose body was parsed, at any node
    proc        \* of each node: running, or why it exited

vars == <<tapMode, net, written, parsed, proc>>

Slice   == [of : Lengths, n : Nat]
Message == [to : Nodes, tap : BOOLEAN, body : Slice, len : Nat]
Parsed  == [len : Nat, body : Int]

TypeOK ==
    /\ tapMode \in [Nodes -> BOOLEAN]
    /\ net \subseteq Message
    /\ written \in [Nodes -> Slice \cup {Nothing}]
    /\ parsed \in Parsed \cup {Nothing}
    /\ proc \in [Nodes -> {"running", "shortRead", "deviceLost", "refused"}]

Init ==
    /\ tapMode \in [Nodes -> BOOLEAN]
    /\ net = {}
    /\ written = [n \in Nodes |-> Nothing]
    /\ parsed = Nothing
    /\ proc = [n \in Nodes |-> "running"]

Running(n) == proc[n] = "running"
Exits(n, why) == proc' = [proc EXCEPT ![n] = why]

-----------------------------------------------------------------------------
(* The device of the sender *)

\* read() returns no more than PACK_MTU bytes of a frame; the rest is gone.
Read(len) == IF len > PACK_MTU THEN PACK_MTU ELSE len

\* on_read_tun_tap up to m_send_callback; which node it goes to is Server's part.
SendFrame(n) ==
    /\ Running(n)
    /\ \E len \in Lengths, to \in Nodes \ {n} :
          LET bufread == Read(len)
          IN  /\ bufread >= MINIMUM
              /\ Cardinality(net) < InFlight
              /\ net' = net \cup {[to |-> to, tap |-> tapMode[n],
                                   body |-> [of |-> len, n |-> bufread],
                                   len |-> bufread + HEADER]}
    /\ UNCHANGED <<tapMode, written, parsed, proc>>

ReadsShort(n) ==
    /\ Running(n)
    /\ \E len \in Lengths : Read(len) < MINIMUM
    /\ Exits(n, "shortRead")
    /\ UNCHANGED <<tapMode, net, written, parsed>>

\* read or write answers that the device is gone or down.
LosesDevice(n) ==
    /\ Running(n)
    /\ Exits(n, "deviceLost")
    /\ UNCHANGED <<tapMode, net, written, parsed>>

-----------------------------------------------------------------------------
(* The device of the receiver *)

\* Mutant: the header is written with the frame.
ToWriteWithHeader(m) == m.len

\* What handle_route_data_recv asks the kernel to write of a message: the
\* difference is made as an int and read as a size_t, so that it cannot be done
\* when it is negative.
ToWrite(m) == AsUInt16(m.len) - HEADER

\* A TAP device wants an Ethernet header, a TUN device an IP version in the first
\* byte, which the address that begins a frame of layer 2 may look like or not.
KernelTakes(tapDevice, m)   == ToWrite(m) >= (IF tapDevice THEN 14 ELSE 1)
KernelRefuses(tapDevice, m) == ~KernelTakes(tapDevice, m) \/ (~tapDevice /\ m.tap)

\* A message may be delivered again: it stays.
WriteFrame(n) ==
    /\ Running(n)
    /\ \E m \in net :
          /\ m.to = n /\ KernelTakes(tapMode[n], m)
          /\ written' = [written EXCEPT ![n] = [of |-> m.body.of, n |-> ToWrite(m)]]
    /\ UNCHANGED <<tapMode, net, parsed, proc>>

WriteRefused(n) ==
    /\ Running(n)
    /\ \E m \in net : m.to = n /\ KernelRefuses(tapMode[n], m)
    /\ Exits(n, "refused")
    /\ UNCHANGED <<tapMode, net, written, parsed>>

Lose ==
    /\ \E m \in net : net' = net \ {m}
    /\ UNCHANGED <<tapMode, written, parsed, proc>>

-----------------------------------------------------------------------------
(* Session messages *)

\* handle_session_data_recv: pack_len + 4 is an int.
Framed(m) == LET len == AsUInt16(m.len)
             IN  len > HEADER /\ len = m.pack_len + HEADER

\* Mutant: the length the message states is taken for the length it has.
ParseAsStated(n) ==
    /\ Running(n)
    /\ \E m \in SessionMessages :
          /\ AsUInt16(m.len) > HEADER
          /\ parsed' = [len |-> m.len, body |-> m.pack_len]
    /\ UNCHANGED <<tapMode, net, written, proc>>

ParseBody(n) ==
    /\ Running(n)
    /\ \E m \in SessionMessages :
          /\ Framed(m)
          /\ parsed' = [len |-> m.len, body |-> AsUInt16(m.len) - HEADER]
    /\ UNCHANGED <<tapMode, net, written, proc>>

DropSession(n) ==
    /\ Running(n)
    /\ \E m \in SessionMessages : ~Framed(m)
    /\ UNCHANGED vars

Node(n) == SendFrame(n) \/ ReadsShort(n) \/ LosesDevice(n) \/ WriteFrame(n)
           \/ WriteRefused(n) \/ ParseBody(n) \/ DropSession(n)

\* All nodes have exited.
Done == (\A n \in Nodes : ~Running(n)) /\ UNCHANGED vars

Next == (\E n \in Nodes : Node(n)) \/ Lose \/ Done
Spec == Init /\ [][Next]_vars

-----------------------------------------------------------------------------
(* Properties *)

\* What a device takes is what another read, to the last byte, in whatever order
\* and however often it comes; of a frame longer than PACK_MTU (a full TAP frame
\* has 1514 bytes) it is the first PACK_MTU bytes, and never a byte that was not
\* sent (server.cpp:308, 318, 327, 483).
WrittenAsRead ==
    \A n \in Nodes : written[n] # Nothing => written[n].n = Read(written[n].of)

\* No message of a node makes another exit, as long as all have one mode: the
\* length that reaches write is never negative, and never too short for the
\* kernel.  A TUN node beside a TAP node exits when its kernel finds no IP
\* version in a frame (server.cpp:320, 483-488).
PeersKeepNodeUp ==
    \A n \in Nodes :
        proc[n] = "refused" => ~tapMode[n] /\ \E peer \in Nodes : tapMode[peer]

\* A session body lies within its message, although the length was cut to 16
\* bits, and is the whole of it when the message has fewer than 65536 bytes
\* (server.cpp:492-508, 517, 536).
BodyWithinMessage ==
    parsed # Nothing =>
        /\ parsed.body > 0 /\ parsed.body + HEADER <= parsed.len
        /\ parsed.len \in UInt16 => parsed.body + HEADER = parsed.len
=============================================================================
