------------------------------ MODULE MCConfig ------------------------------
(***************************************************************************)
(* Config with one field of each kind: tapMode, devName, macAddr, and      *)
(* venderID, which setMacAddr does not touch.                              *)
(***************************************************************************)
EXTENDS Config

Written(tapMode, devName, macAddr, venderID, tunnels) ==
    [set |-> [x \in Fields |-> CASE x = "tapMode" -> tapMode [] x = "devName" -> devName
                                 [] x = "macAddr" -> macAddr [] x = "venderID" -> venderID],
     tunnels |-> tunnels]

MCValues == {1, 2}
MCMacs   == {2}
MCFiles ==
    {Broken,
     Written(1, 1, 1, 1, <<"a", "b">>),
     Written(2, Absent, Absent, Absent, <<"a", Incomplete>>),
     Written(Absent, OtherType, 2, OtherType, <<"b">>),
     Written(OtherType, 2, 1, 2, <<>>)}
=============================================================================
