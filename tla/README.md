# A model of the mesh client

TLA+ specifications, TLC models and TLAPS proofs for the CPE client: a process
that carries the packets of a tun/tap device over a mesh of nodes, and keeps its
table of nodes and the kernel's routes in step with what the control plane says.

## The system

| part | state | operations | talks to |
|---|---|---|---|
| `Server`, packet path (`server.cpp:306-470`) | `m_ip2nodeid_cache` | read a packet, find its node, send | the device, the table, the transport |
| `Server`, session messages (`server.cpp:472-659`) | `m_cpes`, `nodeInfoList`, the cache | mesh notification, keepalive answer, route data | called by the transport's network thread |
| `Server`, kernel routes (`server.cpp:233-303`, `tun_tap.hpp:195-274`) | the kernel's routes of the device | add and delete the routes of the table | the kernel, by ioctl |
| `Server`, construction (`server.cpp:48-81, 175-231`) | the device, its name, address and MAC | create, configure, start the poll | the kernel, the configuration file |
| process start and wormhole (`main.cpp`) | `g_tun_instance`, `g_network_thread`, `g_wormhole_connected` under `g_wormhole_lock` | `main`, `start`, `destroy`, three callbacks | the transport library |
| transport library (`transport/ApiServer.h`, binary) | its own | `FancyJingMsg...` | calls the callbacks in its thread |
| configuration (`config.h`) | `mzConfig` | `loadConfig`, `reset`, `reload`, `setMacAddr`, `split` | the file `mingzhui.cfg` |
| libuv wrappers in use (`uvpp/loop, poll, handle, callback`) | a handle and its callbacks | start, stop, close | libuv |

Two threads run after start-up. The main thread is in `m_loop.run()` and calls
`on_read_tun_tap` for each readable packet. The network thread is in
`FancyJingMsgRun` and calls the session and route callbacks of `main.cpp`. Both
work on the same `Server`, and **nothing locks `m_cpes`,
`m_ip2nodeid_cache` or the cursor of `strtok` inside `mzConfig::split`**. What is
hard in this program is there: the order of a clear, a scan and a store; a table
replaced under a scan; routes deleted by a table that is no longer the one they
were added by. `PROJECT.json` lists each hazard at its line.

What makes each part correct:

- packet path: a cached lookup is indistinguishable from a scan of the table; the
  gateway that stands for an unclaimed address is never remembered;
- session messages: an update takes effect whole, whatever the packets do;
- kernel routes: the routes of the installed mesh, no others, are in the kernel,
  but for what the kernel itself refused, and what they steer into the tunnel the
  table can place on a node;
- construction and start: a callback finds what it needs, in every order of the
  threads; the lifecycle never joins a thread that cannot end;
- configuration: a reload leaves what a fresh load would;
- wrappers: a handle is closed once, and its callbacks never outlive it.

## Modules

| module | models or shows |
|---|---|
| `MeshLookup` | the pure part: addresses and masks, tables made of notifications, `getNodeIDFromIP` without the cache (`Answer`), routes of a table (`RoutesOf`) |
| `Directory` | what `Server` promises of an update: the table and the routes change whole, by notifications in the order received |
| `Server` | both threads, one action per step that the other thread can see |
| `ServerHistory` | history variables, the properties, and the refinement of `Directory` |
| `MCServer`, `MCServerTun`, `MCServerTap` | instances for TLC |
| `ServerProofs` | the lookup of `MeshLookup`, type correctness, the cache and the gateway, acceleration only |
| `RouteProofs` | the routes follow the table; the refinement of `Directory` |
| `CacheProofs` | the cache is transparent; a steered packet reaches a node |
| `Tunnel`, `MCTunnel` | a frame from one device to another, and a session message: their lengths |
| `TunnelProofs` | those lengths for all frames, messages and numbers of nodes |
| `WormholeSwitch` | what `start` and `destroy` promise: an atomic switch |
| `Wormhole` | `start`, `destroy`, the network thread and the library's object |
| `WormholeSend` | `Wormhole` with the sends that take no lock |
| `WormholeProofs` | one thread, an object for it and for sends, and the refinement of the switch |
| `Startup`, `MCStartup` | `main` and the constructor, with crashes, restarts and the file on disk |
| `Handle` | the libuv wrapper's handle, its owner and its callbacks |
| `HandleLife` | what libuv asks of a handle's user: one life from `new` to the return of the close callback |
| `HandleProofs` | one owner, a running callback that lives, no failed assertion, the refinement of `HandleLife` |
| `StartupProofs` | the MAC outlives the process, the loop begins complete |
| `Config`, `MCConfig` | loads, reloads and `setMacAddr` beside an administrator |
| `ConfigProofs` | the MAC is recorded into the file as it was left; a reload is a fresh load; the tunnels of every load are kept |

`MeshLookup` is extended by `Directory` and `Server`, `Server` by `ServerHistory`,
which instantiates `Directory`; `Wormhole` instantiates `WormholeSwitch` and is
extended by `WormholeSend`; `Handle` instantiates `HandleLife`. `Tunnel` takes the destination that `Server` computes
as arbitrary, and `Server` the frame as its destination address; `Startup` takes
the file as `Config` leaves it.

### How `Server` corresponds to the code

`m_cpes`, `m_ip2nodeid_cache` and `nodeInfoList` are the members of those names;
`kroutes` is what the kernel holds for the device; `packet` and `destID` are the
main thread's locals, `pending` the message the network thread is working on.
`undeleted` and `unadded` are history: the routes that the kernel has refused to
delete and not deleted since, and those it refused to add in the last update. No
action reads them but to keep them.

| action | code |
|---|---|
| `ReadPacket`, `ReadFails` | `on_read_tun_tap`, `handle_packet_from_dev`, the branches of `getDestIDFromTapPacket` |
| `CacheFind`, `CacheGet`, `ScanTable` | `getNodeIDFromIP`: find, `operator[]`, the loop |
| `StoreAnswer`, `SendPacket` | the guarded store of the callers, `m_send_callback` |
| `RecvMeshNotify`, `RecvOnlineNotify`, `RecvDropped` | `handle_session_data_recv` with its early returns |
| `ClearCache`, `PushNodeInfo`, `NodeInfoFilled`, `DelRoutes`, `InitMeshCpes`, `AddRoutes` | `handle_mesh_notify`, in its order |
| `InitOnlineCpes` | `handle_online_cpes_notify` |
| `RecvRouteData` | `handle_route_data_recv` |

A value of `mainPc` or `netPc` other than `"idle"` names an operation in progress
that takes effect when the counter leaves it. When two operations in progress
conflict the code has a data race, and the action has more outcomes:

- **cache against `clear`**: find may hit or miss, `operator[]` may read any entry
  or 0, and the map may keep any part of its entries (`Torn`);
- **scan against a replaced table, or `split` against `split`**: the scan answers
  with any id (`scanRaced`), the update adds or deletes any routes that can be
  pieced together from the items of the tables in use (`MixedRoutes`): a token may
  be any piece of a text, so that the network of one item meets the length of
  another, a length is read as an address and an address as a length; what is
  read of a text already freed is taken for no address (all ones) and for length 0;
- either may crash the process (`RaceCrash`).

A loop whose iterations the other thread can tell apart only by racing with it
(the scan, the two route loops, the refill of `m_cpes`) is one step: a racing
iteration has the arbitrary outcome anyway.

With `RouteFaults` the ioctl of `route_add_net` and of `route_del_net` fails for
any of the routes of an update (`Refusals`). Both then return -1, the two loops
(`server.cpp:263, 300`) ignore it and go on, and so does the model: the route that
was not added is missing, the route that was not deleted stays. Whatever
`RouteFaults` is, a route with host bits is refused (`KernelAccepts`), and one that
is there already, which changes nothing.

Abstractions: addresses have `AddrBits` bits; a subnet text is the set of its
items; an address text is the address it denotes or `BadText`, which
`inet_addr` turns into all ones; MACs and ids are values; log output is left out.

### How `Wormhole` corresponds to the code

A caller's `pc` names the next step of its call. The lock is held from `StartEnters`
or `DestroyEnters` to `SpawnThread` or `ReleaseLibrary`, as by the `lock_guard`;
the calls that return at once (`StartRefused`, `DestroyIdle`) are one step. The
steps inside the lock are cut where the network thread can see a difference: at
the library's calls and at the join.

| action | code (`main.cpp`) |
|---|---|
| `StartEnters`, `StartRefused` | 68-73, the lock and the check of `g_network_thread` |
| `InitLibrary`, `SpawnThread` | 83-104, 112-115 |
| `DestroyEnters`, `DestroyIdle` | 118-121 |
| `StopLibrary`, `JoinThread`, `ReleaseLibrary` | 123, 125-129, 131-134 |
| `EnterRun`, `LoopEnds` | `FancyJingMsgRun` in the thread of 107-110 |

The library is a binary with a header. `Wormhole` assumes of it what the program
relies on: `FancyJingMsgInit` keeps an object that exists; `FancyJingMsgStop`
stops a libuv loop, and one that has not begun ends as soon as it begins;
`FancyJingMsgRelease` frees the object. `configured` counts how often the tunnels
of the configuration were added to one object. In this repository only `main`
calls `start` and nobody calls `destroy`; the lock says that they are meant for
more callers, so `Callers` are several.

`WormholeSend` adds `send_cb` (167-171): the library looks whether there is an
object (`SendEnters`, or `SendRefused`, whose -1 nobody reads) and works in it
until `SendReturns`, all without `g_wormhole_lock`. A send is marked `"freed"`
when the object goes while it is inside. `started` is history: the senders whose
`start` has returned, with 0 or -1, and has been followed by no destroy. The proof
of `SendsUntilDestroyed` rests on the -1: a start that answers it has waited for
the destroy before it.

### How `Tunnel` corresponds to the code

A message of the transport carries the first `n` bytes of a frame and its own
length. `SendFrame` is `on_read_tun_tap` with its 1500-byte read and the 4 bytes
of header, `WriteFrame` and `WriteRefused` are `handle_route_data_recv`,
`ReadsShort`, `LosesDevice` and `WriteRefused` its exits. `Framed` is the check of
`handle_session_data_recv`; both callbacks get an `int` and take a `uint16_t`
(`AsUInt16`). What the kernel's tun driver asks of a write (14 bytes in TAP mode,
an IP version in TUN mode) is external. Nodes may differ in `tapMode`, which
nothing in the code prevents; the payload itself is not compared, only which frame
a slice is of and how long it is.

### How `Config` corresponds to the code

Fields are told apart by how `loadConfig` treats them: `Numbers` are read with
`lookup`, which throws for a setting of another type (`main` and `reload` catch
only a missing one, so the process ends); `Texts` with `lookupValue`, which
leaves the member alone; `KeptTexts` (`macAddr`, `venderID`, the two out device
names) likewise, and `reset` forgets them. `Reload` is `reload` on a good file,
`ReloadBroken` on one that does not parse, whose error `reload` ignores.
`SetMacAddrReads` and `SetMacAddrWrites` are the two halves of `setMacAddr`, with
the administrator's `Edit` before, between and after. `reload` has no caller but
`on_signal`, which is not registered; its promises are those of the class.

### How `Startup` corresponds to the code

`file` is `mingzhui.cfg` as an administrator or the program left it, with what
the start depends on: whether it parses, the mode, whether `devName` is the name
the device will have, and the MAC text. `dev` is the device of our name with its
owner, `fd` whether `m_tun_tap_dev_fd` is a descriptor. A process goes through

| action | code |
|---|---|
| `LoadConfig`, `LoadFails` | `main.cpp:144-151`, `loadConfig` |
| `CreateDevice` | `tun_create`, called by the initialiser list (`server.cpp:50`) |
| `ConfigureDevice`, `ConfigureFails` | `init_tap_tun_dev`, `set_if_flags`, `set_mac`, `get_mac` |
| `OpenFile`, `WriteFile` | `setMacAddr`: the file is emptied, then written |
| `StartPoll`, `StartPollFails` | `server.cpp:74-77`, `uvpp/poll.hpp` |
| `StartWormhole`, `Register` | `main.cpp:174-176` |
| `Crash` | from any step back to no process; the file and another's device remain |

The model takes one thing of the transport library that it cannot check: that
`FancyJingMsgInit` allocates the global `buffer` (`server.cpp:29`), into which the
packet loop reads and which nothing in the repository's sources assigns. `library`
stands for it, and the part of `LoopIsReady` about the buffer is worth what that
assumption is.

A kernel that refuses `set_mac` is the text `RefusedMac`: the code goes on, and
so does the model. `OtherTakesName` and `OtherLeavesName` are another process
that creates and removes a device of the same name.

### How `Handle` corresponds to the code

A wrapper is an object of a class derived from `handle`; the model takes its
construction, moves, `close` and destructor from `handle.hpp`, `start` and `stop`
from `poll.hpp`, and `reset` from `tcp.hpp`, the one use of `handle_reset`. `uv` is
what libuv has of a handle; a freed handle's memory may come back from `new`, so
`Handles` are addresses. `calling` is the callback that runs: the program's calls
happen inside it as well as outside, and a close takes effect when libuv calls
back.

`Next` is a program that keeps to what libuv and the wrappers ask: it does not
use a wrapper without a handle, closes a handle before it destroys, resets or
assigns over the wrapper, and does not start a handle from that handle's own
callback (`store` would destroy the function that runs). The client in this
repository does: `Server` starts its poll once and keeps it to the end. `AnyNext`
adds the two careless calls that comments in `handle.hpp` speak of. A `Poll` whose
initialisation fails is in `Startup`.

## What the runs check

| run | instance | properties |
|---|---|---|
| `tun` | TUN client, gateway 9, two meshes whose subnets overlap, one keepalive answer, four messages that are dropped, two packets | types, `CacheCoherent`, `SentAsTabled`, `GatewayNeverCached`, `RoutesCoverMesh`, `NoStrayRoutes`, `SteeredPacketsReachNode`, `SteeredAsClaimed` |
| `tap` | TAP node that is the gateway, 5-bit addresses so that both multicast boundaries exist, MACs that nodes claim and swap, a node without a subnet, a broken keepalive answer; fair threads | `CacheCoherent`, `SentAsTabled`, `SteeredPacketsReachNode`, `ImplementsDirectory`, `MeshTakesEffect` |
| `only_acc` | acceleration only, the kernel may refuse to add or to delete any route of any update | `OneExit`, `NoStrayRoutes`, `RoutesCoverMesh` |
| `wormhole` | three callers, one of which sends, two identities of threads, calls for ever | `OneThread`, `ThreadHasLibrary`, `SendsUntilDestroyed`, `JoinedThreadToldToEnd`, `ImplementsSwitch`, `LockComesFree` |
| `tunnel` | two nodes of any modes, frames of 19 to 1514 bytes, eight session messages up to 65541 bytes, two messages in flight | `WrittenAsRead`, `PeersKeepNodeUp`, `BodyWithinMessage` |
| `config` | one field of each kind, five files, one of them broken, edited at any time | `ReloadedAsFresh`, `TunnelsOfAllLoads`, `EditSurvives` |
| `startup` | TAP nodes with each kind of MAC text, with and without a device name, a TUN node, a broken file; crashes for ever | `DeviceHasRecordedMac`, `LoopIsReady`, `RecordedForGood` |
| `handle` | two wrappers, three handles of type `UV_POLL`, two functions | `OneOwner`, `RunningCallbackLives`, `NoFault`, `ImplementsLifecycle`, `ClosedIsFreed` |
| `double_close`, `dtor_release` | as `handle`, with a careless program | violated: `DoubleCloseReturns`, `ReleasedByClose` |
| `routes_left` | as `tun` | violated: `AllRoutesDeleted` |
| `all_hosts` | as `tap` | violated: `BelowAllHostsLookedUp` |

The safety properties of the cache hold *as long as no packet was in flight
during an update since the last clear that no packet was in flight at*
(`overlapped`), and those of the routes as long as no scan ran beside a route
update (`scrambled`) and, for stray routes, no keepalive answer has replaced the
table (`onlineSeen`). Those conditions are what the code's missing locks and its
`handle_online_cpes_notify` cost; without them TLC finds the stale entry, the
entry 0 and the leaked route. `GatewayNeverCached` needs no such condition, and
`OneExit` says that acceleration-only nodes cannot meet the first two.

The route properties do not assume that the kernel does as it is asked; they name
what it refused. `NoStrayRoutes` allows a route of no node only if the kernel
refused to delete that very route, `RoutesCoverMesh` misses only what was refused
in the last update, and `SteeredPacketsReachNode` is about the routes that are not
left over. `SteeredAsClaimed` is an equality and asks that nothing has been
refused; `ImplementsDirectory` has no place for a refusal and is for a kernel
without faults. Refusals occur in `only_acc`, where no lookup multiplies the
states; `tun` and `tap` have a kernel without faults, and what their lookups do
beside refusals is proved (`SteeredPacketsArrive`, `RoutesSteerClaims`).

Four runs end in a violation of something the source says of itself. `routes_left`:
after a mesh and a keepalive answer, the next mesh notification deletes routes by
a table without subnets, deletes none, and reports "delete all route info"
(`server.cpp:611`). `all_hosts`: 224.0.0.0 is less than 224.0.0.1 but not less
than `0xE0000000` (`server.cpp:448`), so it gets destination 0.

`double_close`: `close` promises to "prevent assertion on double close", but the
first close has already set `m_uv_handle` to null, and the second asks libuv about
it. `dtor_release`: the class says that resources are released on close and "NOT
on the dtor", and the destructor of an open wrapper frees a handle that the loop
still links. The program itself uses neither. (Nor does it use `FsPoll`, whose
handle type is missing from `free_handle`: `NoFault` is stated, and proved, for
the types of `FreeHandleTypes`.)

What else the model makes visible, without a line that promises otherwise: an
empty mesh can never be installed, since its message is empty and
`handle_mesh_notify` returns at once; in TAP mode the cache answers for an
address with the node that another packet's MAC chose, which is why
`SentAsTabled` speaks of any MAC there.

From the start-up model: a crash between the emptying and the writing of the
file leaves an empty one, which parses, and the next start comes up as TUN node 0
(`RecordedForGood` confines this to the one start that records the MAC); a TAP
node without `devName` records zeros, and so writes its file on every start; when
another process holds the name, `tun_create` fails, set-up configures the other's
device and records its MAC, and the process then crashes in `uv_poll_start`
(`LoopIsReady` says that it gets no further).

From the lengths: a full TAP frame loses its last 14 bytes at the read, silently;
a TUN node in a mesh with a TAP node exits at the first frame of it that the
kernel refuses (`PeersKeepNodeUp` allows this one case). From the configuration: a
reload repeats the tunnels, forgets neither `macAddr` nor a tunnel that was
removed, and with a file that is broken at that moment leaves the defaults, a TUN
node without a gateway (`ReloadedAsFresh` says so); an edit that falls into
`setMacAddr` is undone (`EditSurvives` excepts it).

### Bounds

The state of `Server`, `Wormhole`, `Startup` and `Handle` is finite: no action counts.
Three bits of address
hold a network, a half of it, a bad text (all ones) and a network with host bits;
five are the least at which both ends of the multicast range differ. Two meshes
suffice for every stale entry (old table, new table), a third node for first-match
order. Repetition is unbounded: notifications and packets come for ever.

`wormhole` has three callers, so that one can hold the lock while a start and a
destroy wait, and two identities of threads, one more than may be alive.
`startup` has three MACs: the recorded one, the one a restarted kernel chooses,
and that of another process's device.

`tunnel` has the frame lengths at which something changes: one byte too short, the
shortest, one that one byte cannot count, a full read, a full Ethernet frame; and
session messages below, at and beyond 16 bits. `config` reloads until four tunnels
are listed, two good loads and one more: a third says nothing a second does not.

`handle` has two wrappers, the least for moves and shared handles, and three
handles, so that both wrappers can own one while a third is closing.

### Fairness

`tap` assumes weak fairness of the steps of an update already received: the
operating system schedules the network thread, and no call it makes waits for the
main thread. Nothing is assumed of the main thread, and receiving a message is not
fair: the environment may stop.

`wormhole` assumes weak fairness of a caller that is inside the lock and of the
network threads, which the operating system schedules. Waiting for the lock is not
fair, since `std::mutex` promises no order: a caller may wait for ever, and
`LockComesFree` speaks of the holder.

`handle` assumes that callbacks return, and strong fairness of the callback of a
closing handle: the loop may call back ready handles for ever, but each iteration
of `uv_run` ends with the closing ones.

## What is proved

For every address width, set of nodes, packets, messages and modes (assumptions
`ConstantsAssumption`, `ServerAssumption`: only the types of the constants):

- `TypeCorrect`: `Spec => []TypeOK`. `TypeOK` is inductive; a looked-up
  destination must be known to be an id before it is stored, so `destID` may be
  the broadcast id only while it is sent.
- `GatewayStaysUncached`: inductive in `CacheOver(m_ip2nodeid_cache, Remembered)`.
- `OneExitOnly`: `OneExitInv` adds that the main thread stays out of the lookup.
- `UpdatesLeaveNoRoute`, `RoutesStayCovered`: from `RouteInv`, which says for each
  stage of the update whether the kernel has routes of `m_cpes` or none, but those
  it has refused to delete (`RoutesFollow`), which list they are of, but those it
  refused to add (`RoutesKept`), and that a scan beside a route update is on record
  (`SplitNoticed`). Both hold for a kernel that refuses any routes at any time.
- `CacheStaysCoherent`, `CacheIsTransparent`: from `CacheInv`. The property alone
  is not inductive: it needs that a meeting of the threads is on record
  (`MeetingNoticed`), that nothing is remembered between the clear and the new
  table (`CacheEmptied`), that the entry found is still there for `operator[]`
  (`FoundStays`) and that the destination in flight came from a table
  (`DestinationFromTable`).
- `ScanReturnsFirstClaim`: `Answer` is the loop of `getNodeIDFromIP`, entry by entry
  with its early return; the theorem says what it returns, the first entry that
  claims the address. `ScanExists` gives the function that the recursion defines
  for a table of any length, and `ScanReaches` that the loop goes past the entries
  before the first that claims. `SteeredIsClaimed`: lookup and routes read the
  subnets alike. The least claiming position exists because initial segments of
  the naturals are well-founded under inclusion (`LeastPosition`), which stands in
  for induction in all three.
- `RoutesAreDeleted`: what the source says of itself at `server.cpp:611`, and what
  the run `routes_left` refutes, does hold as long as there has been no keepalive
  answer and the kernel has refused no delete: those are the only two ways to it.
- `RoutesSteerClaims`: the kernel steers an address into the tunnel exactly when it
  lies in a subnet of another node, as the lookup matches it. One half is
  `SteeredIsClaimed`; the other, `ClaimedIsSteered`, needs that the one item the
  kernel refuses, a network with host bits, is one that no address matches
  (`RemainderCleared`, `MaskedIsNetwork`), and that with the kernel's routes those
  of the table and no others (`RoutesAreExact`). It holds until the kernel refuses
  an add or a delete, also where `RouteFaults` allows it to.
- `UpdatesAreAtomic`: `HSpec => ImplementsDirectory`, for a kernel without
  faults (`~RouteFaults`, from which `NothingRefused` follows). `ListFollows` ties the list an update is working on to the
  message at each stage; the routes follow by `RouteInv`, a scan beside a route
  update is a step of the directory that may leave any routes (`Disturbed`).
- `SteeredPacketsArrive`: from `CacheInv`, `ScanReturnsFirstClaim` and
  `SteeredIsClaimed`; while no packet was in flight in an update, the tables a cached
  answer may come from are one (`SoleTable`). The route that steers the packet is
  one that the kernel has not refused to delete.

- `AtMostOneThread`, `ThreadFindsLibrary`: from `LockHeld` (who is inside holds the
  lock, and only that caller is inside) and `StageInv`, which says at each stage of
  the holder, or with the lock free, what the recorded thread, the object and the
  connected flag are. Any number of callers and of thread identities.
- `StartAndDestroyAreAtomic`: the same invariant gives the refinement of
  `WormholeSwitch`: each step of `Wormhole` is a step of the switch or leaves
  `on`, `call` and `ret` alone. `StageInv` is what the failing start needs: with
  the lock free a thread is recorded exactly when the wormhole is connected.
- `JoinsEnd`: the safety half of `LockComesFree`: at the join the recorded thread has
  ended, or it is alive and the object it will find is there and stopped. From
  `StageInv`; what the fairness of that thread then adds is left to TLC.
- `SendsFindLibrary`: `SendInv` adds that while `started` is not empty the lock is
  free and a thread recorded, which only a destroy that enters can change
  (`StaysOn`); the object is freed at the stage `release` only
  (`OnlyReleaseFrees`).
- `FramesArriveAsRead`, `NodesStayUp`, `BodiesStayWithin`: from `MessagesFramed`,
  that every message in the transport carries what one read returned and a length 4
  more; such a length fits 16 bits (`ShortLengthKept`), so that the write is of
  exactly those bytes.
- `HandleHasOneOwner`, `CallbackOutlivesItsCall`: from `Inv` of `HandleProofs`; a
  callback in execution survives because the callback of `close` runs for a
  closing handle only (`CallingInTurn`), and one callback runs at a time.
- `KnownTypesDoNotFault`: what libuv may call back has a callback (`HasCallback`),
  so that only `free_handle` can fail (`FaultIsType`); it assumes a type in
  `FreeHandleTypes`.
- `WrappersImplementLifecycle`: each step of `Handle` is one step of `HandleLife` or
  none (`StepIsOfLife`). The strengthening is the same `Inv`: a wrapper that owns a
  handle owns one that is idle or active, so that a close finds an open handle and
  the callback of close a closing one. It assumes a type in `FreeHandleTypes`,
  without which the callback of close frees only the table.
- `CarefulReleasesByClose`: the claim that `dtor_release` refutes holds of `Spec`:
  only the two careless calls of `AnyNext` can break it.
- `MacOutlivesProcess`, `LoopBeginsComplete`, `FileIsLeftAlone`: from `Inv` of
  `StartupProofs`, that a descriptor belongs to our own device
  (`DescriptorIsOwn`), that the file follows the configuration loaded
  (`FileFollowsConfig`), that the device has its MAC from the set-up on
  (`MacFollowsDevice`), and what `main` has set at each of its steps
  (`MainInOrder`).
- `EditsStay`: from `HeldAsLeft`, that what `setMacAddr` holds between its read and
  its write is the administrator's file, perhaps with a MAC; a MAC written over a
  MAC is again one (`RecordedAgain`). It assumes that no file a program can parse
  is `Broken`, and that the MACs are texts.
- `ReloadsAreFresh`: from `Loaded` (no process, no members; the last good file is on
  record). The invariant is needed by itself: what `reset` forgets is a default or
  was found by an earlier load (`KeptIsFound`).

- `TunnelsAccumulate`: the list is `FlattenSeq` of what every load added
  (`Gathered`). `FlattenSeq` recurses over sequences, and the library's induction
  theorems cannot be instantiated here; `AllNaturals`, that a set of naturals with 0
  and with every successor is all of them, is the induction used in their place:
  `FlattenExists` and `FlattenUnique` give the function that the definition
  chooses, and `FlattenAppend` what one more load adds.

Only model-checked: `MeshTakesEffect`, `LockComesFree` and
`ClosedIsFreed`, since liveness under fairness is out of the prover's reach, and
the four violations. Every invariant, action property and refinement of the passing
runs is proved.

A remark on the prover: its translation of `Len` for the SMT solver is exact for
sequences, but contradictory in an obligation that also holds a function over
another interval, such as `0 .. n`. The lemmas on `FlattenSeq` are therefore stated
over `DOMAIN` and opaque operators (`Agree`, `Flattens`), so that the two never meet
in one leaf.

## Plan

Done, in this order: `MeshLookup` and `Server` with its tables, routes and cache,
`Wormhole`, `Startup`, `Handle`, `Directory` and its refinement, `Tunnel`,
`WormholeSend`, `Config` and its proofs, `HandleLife` and its refinement.

Left, in this order:

1. `Split`: `strtok` at the grain of its calls, with the freed texts its cursor may
   point into, to show that a `split` no other meets is exact and that one that is
   met yields what `MixedRoutes` allows;
2. the callback slots of `uvpp/stream.hpp`, where a second write replaces the
   callback of the first, if the program comes to use them.

## Not modelled

- `on_signal`: its registration is commented out (`server.cpp:64-69`). Of what it
  would call, `reload` is in `Config` and `del_route_for_nodes` in `Server`.
- The transport library (binary): its calls appear as the program sees them, its
  protocol does not. Assumed of it: what the sections on `Wormhole`, `WormholeSend`
  and `Startup` name (a stop that is not lost, the object of `Init` and `Release`,
  the refused send, the allocated `buffer`), and, in `Tunnel`, that a route message
  is one that this program sent, lost, repeated or reordered but not cut: a route
  message of less than 4 bytes from elsewhere is outside the model.
- The kernel and libuv, except for the answers that the program's calls get.
- The libuv wrappers that no code of the program uses, formatting and logging.
- Vendored and generated code. The repository holds about 670,000 lines of source,
  of which some 1,430 (`src/main`) are the program and 3,000 (`src/include/uvpp`)
  are wrappers of which the program uses four files and `tun_tap.hpp`; the rest is
  protobuf with its own generated tests, libuv and libconfig headers, and the
  `.pb` files of the four messages. The specifications cover most of what changes
  state in the program's own lines; as a share of the repository that is a fraction
  of a percent, and no model of this program can make it more.
