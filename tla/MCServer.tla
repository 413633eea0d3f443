------------------------------ MODULE MCServer ------------------------------
(***************************************************************************)
(* Instances of ServerHistory for TLC.  Node 1 is this node, node 9 the    *)
(* gateway.  The notifications overlap in addresses, so that the order of  *)
(* the table and what was cached before matter, and contain the texts that *)
(* the code skips, drops or misreads.                                      *)
(***************************************************************************)
EXTENDS ServerHistory

MCNodeIDs == {0, 1, 2, 3, 9}

Item(net, len) == [net |-> net, len |-> len]
Info(id, ip, subnet, mac) ==
    [node_id |-> id, virtual_ip |-> ip, subnet |-> subnet, mac_addr |-> mac]

\* A session message of n bytes after the header, and its defective variants.
Message(uri, n, meta, nodes) ==
    [len |-> n + 4, pack_len |-> n, pack_uri |-> uri, parses |-> TRUE,
     meta |-> meta, nodes |-> nodes]

Mesh(nodes)   == Message(MESSAGE_CPE_CHANGE_NOTIFY, 1, "list", nodes)
Online(nodes) == Message(MESSAGE_KEEPALIVE_UDP_RES, 1, "list", nodes)

DroppedFrames == {Message(MESSAGE_CPE_CHANGE_NOTIFY, 1, "empty", <<>>),
                  [Mesh(<<>>) EXCEPT !.len = 9],
                  [Mesh(<<>>) EXCEPT !.len = 65540],
                  Message(1, 1, "list", <<>>)}
=============================================================================
