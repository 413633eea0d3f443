----------------------------- MODULE Directory -----------------------------
(***************************************************************************)
(* What the message handlers of Server (src/main/server.cpp) promise of    *)
(* the node table and the kernel's routes: each notification takes effect  *)
(* in one step, and whole.  A mesh notification exchanges the table for    *)
(* the nodes it lists, and the routes of the old table for those of the    *)
(* new one.  A keepalive answer exchanges the table alone, so that the     *)
(* routes of the mesh before it belong to no table any more.               *)
(*                                                                         *)
(* A route update beside a scan shares its strtok cursor; from then on     *)
(* nothing is promised (disturbed).                                        *)
(***************************************************************************)
EXTENDS MeshLookup

CONSTANTS
    MeshLists,     \* the node lists of the mesh notifications that may come
    OnlineLists    \* and of the keepalive answers

VARIABLES table, routes, disturbed

dirVars == <<table, routes, disturbed>>

Init == table = <<>> /\ routes = {} /\ disturbed = FALSE

\* t has the nodes of a list that have a subnet, in their order: entry k is made
\* of node g[k].
Installs(t, nodes) ==
    \E g \in [DOMAIN t -> DOMAIN nodes] :
        /\ \A j, k \in DOMAIN t : j < k => g[j] < g[k]
        /\ \A i \in DOMAIN nodes :
              nodes[i].subnet # NoSubnet <=> \E k \in DOMAIN t : g[k] = i
        /\ \A k \in DOMAIN t : t[k] = CpeOf(nodes[g[k]])

MeshUpdate ==
    /\ \E nodes \in MeshLists : Installs(table', nodes)
    /\ routes' = (routes \ RoutesOf(table)) \cup RoutesOf(table')
    /\ UNCHANGED disturbed

OnlineUpdate ==
    /\ \E nodes \in OnlineLists : table' = OnlineCpes(nodes)
    /\ UNCHANGED <<routes, disturbed>>

Disturbed == disturbed' = TRUE

Next == MeshUpdate \/ OnlineUpdate \/ Disturbed

Spec == Init /\ [][Next]_dirVars
=============================================================================
