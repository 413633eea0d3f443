------------------------------ MODULE MCTunnel ------------------------------
(***************************************************************************)
(* Tunnel at the edges of its lengths: a frame one byte too short, the     *)
(* shortest, one of 256 bytes, a full packet, a full TAP frame; session    *)
(* messages that are exact, that state more or less than they have, and    *)
(* that pass 65535.                                                        *)
(***************************************************************************)
EXTENDS Tunnel

MCLengths == {19, 20, 256, 1500, 1514}

Session(len, pack_len) == [len |-> len, pack_len |-> pack_len]
MCSessionMessages ==
    {Session(4, 0), Session(5, 1), Session(9, 6), Session(9, 4), Session(65535, 65531),
     Session(65536, 65532), Session(65541, 1), Session(65541, 65535)}
=============================================================================
