------------------------------- MODULE Startup -------------------------------
(***************************************************************************)
(* main of src/main/main.cpp and the constructor of Server, from the       *)
(* configuration file to the packet loop, across crashes and restarts of   *)
(* the process.  Two things outlive a process: the configuration file, and *)
(* a device of the same name that another process holds.                   *)
(*                                                                         *)
(* A TAP node without a MAC in its file takes the one the kernel gave its  *)
(* device and writes it to the file, for the next start to set.  Other     *)
(* nodes find it by that MAC.                                              *)
(***************************************************************************)
CONSTANTS
    Macs,       \* MACs that a device can have
    ZeroMac,    \* the text 00:00:00:00:00:00
    NoMac,      \* no text, or an empty one
    RefusedMac, \* a text of six parts that the kernel refuses for a device
    BadMac,     \* a text that is not six parts
    Files,      \* configuration files an administrator leaves
    NoDevice, NoConfig

VARIABLES
    file,           \* mingzhui.cfg
    dev,            \* the device of our name: its MAC, and whose it is
    fd,             \* m_tun_tap_dev_fd is a descriptor
    m_config,
    macAddr_str,    \* what get_mac found, as a text
    mainPc,         \* "down": there is no process
    g_tun_instance, \* it points to the Server
    library,        \* FancyJingMsgInit has allocated buffer; the thread runs
    send_callback, gateway_id   \* they are set

started == <<g_tun_instance, library, send_callback, gateway_id>>
vars == <<file, dev, fd, m_config, macAddr_str, mainPc, started>>

MacTexts == Macs \cup {ZeroMac, NoMac, RefusedMac, BadMac}

\* named: devName is the name that the kernel gives the device, not an empty one
\* and not a pattern.  An empty file parses; a broken or missing one does not.
File ==
    [parses : BOOLEAN, tapMode : BOOLEAN, named : BOOLEAN, macAddr : MacTexts]

EmptyFile == [parses |-> TRUE, tapMode |-> FALSE, named |-> FALSE, macAddr |-> NoMac]

ASSUME StartupAssumption ==
    /\ Files \subseteq File
    /\ {ZeroMac, NoMac, RefusedMac, BadMac} \cap Macs = {}
    /\ NoConfig \notin File /\ NoDevice \notin [mac : Macs, ours : BOOLEAN]

MainPcs == {"down", "create", "configure", "setMacAddr", "writeFile", "poll",
            "start", "register", "run"}

TypeOK ==
    /\ file \in File
    /\ dev \in [mac : Macs, ours : BOOLEAN] \cup {NoDevice}
    /\ fd \in BOOLEAN
    /\ m_config \in File \cup {NoConfig}
    /\ macAddr_str \in MacTexts
    /\ mainPc \in MainPcs
    /\ {g_tun_instance, library, send_callback, gateway_id} \subseteq BOOLEAN

Init ==
    /\ file \in Files
    /\ dev = NoDevice /\ fd = FALSE
    /\ m_config = NoConfig /\ macAddr_str = NoMac /\ mainPc = "down"
    /\ g_tun_instance = FALSE /\ library = FALSE
    /\ send_callback = FALSE /\ gateway_id = FALSE

-----------------------------------------------------------------------------
(* main *)

\* A missing or unreadable file ends the process.
LoadFails == mainPc = "down" /\ ~file.parses /\ UNCHANGED vars

LoadConfig ==
    /\ mainPc = "down" /\ file.parses
    /\ m_config' = file
    /\ mainPc' = "create"
    /\ UNCHANGED <<file, dev, fd, macAddr_str, started>>

\* tun_create.  The kernel chooses the MAC.  A failure leaves a negative value
\* in m_tun_tap_dev_fd, and the constructor goes on.
CreateDevice ==
    /\ mainPc = "create"
    /\ \/ /\ dev = NoDevice
          /\ \E mac \in Macs : dev' = [mac |-> mac, ours |-> TRUE]
          /\ fd' = TRUE
       \/ UNCHANGED <<dev, fd>>
    /\ mainPc' = "configure"
    /\ UNCHANGED <<file, m_config, macAddr_str, started>>

\* The process ends, its device and its threads with it.
Ends ==
    /\ mainPc' = "down" /\ m_config' = NoConfig /\ macAddr_str' = NoMac
    /\ fd' = FALSE /\ g_tun_instance' = FALSE /\ library' = FALSE
    /\ send_callback' = FALSE /\ gateway_id' = FALSE
    /\ dev' = IF dev # NoDevice /\ dev.ours THEN NoDevice ELSE dev
    /\ UNCHANGED file

\* set_if_flags finds no device of the name, or the MAC text is not six parts.
ConfigureFails ==
    /\ mainPc = "configure"
    /\ dev = NoDevice \/ (m_config.tapMode /\ m_config.macAddr = BadMac)
    /\ Ends

\* get_mac asks by m_config.devName: for another name it leaves the zeros.
MacOfDevice == IF m_config.named THEN dev.mac ELSE ZeroMac

\* Mutant: a TAP node saves the MAC of its device on every start.
SavesAlways == m_config.tapMode

Saves == m_config.tapMode /\ m_config.macAddr \in {NoMac, ZeroMac}

\* Mutant: the MAC of the file is not given to the device.
ConfigureDeviceWithoutMac ==
    /\ mainPc = "configure" /\ dev # NoDevice
    /\ m_config.tapMode => m_config.macAddr # BadMac
    /\ macAddr_str' = IF Saves THEN MacOfDevice ELSE NoMac
    /\ mainPc' = IF Saves THEN "setMacAddr" ELSE "poll"
    /\ UNCHANGED <<file, dev, fd, m_config, started>>

\* init_tap_tun_dev: a TAP node sets the MAC its file names, and goes on if the
\* kernel refuses it, or finds out the one it has.
ConfigureDevice ==
    /\ mainPc = "configure" /\ dev # NoDevice
    /\ m_config.tapMode => m_config.macAddr # BadMac
    /\ dev' = IF m_config.tapMode /\ m_config.macAddr \in Macs
              THEN [dev EXCEPT !.mac = m_config.macAddr] ELSE dev
    /\ macAddr_str' = IF Saves THEN MacOfDevice ELSE NoMac
    /\ mainPc' = IF Saves THEN "setMacAddr" ELSE "poll"
    /\ UNCHANGED <<file, fd, m_config, started>>

\* setMacAddr reads the file again, which is as it was loaded, and writes it
\* anew: opening it for that empties it, or fails and leaves it.
OpenFile ==
    /\ mainPc = "setMacAddr"
    /\ \/ file' = EmptyFile /\ mainPc' = "writeFile"
       \/ UNCHANGED file /\ mainPc' = "poll"
    /\ UNCHANGED <<dev, fd, m_config, macAddr_str, started>>

WriteFile ==
    /\ mainPc = "writeFile"
    /\ file' = [m_config EXCEPT !.macAddr = macAddr_str]
    /\ mainPc' = "poll"
    /\ UNCHANGED <<dev, fd, m_config, macAddr_str, started>>

\* new Server returns when the poll has started; libuv has no handle to start
\* when there was no descriptor, and the process crashes.
StartPoll ==
    /\ mainPc = "poll" /\ fd
    /\ g_tun_instance' = TRUE
    /\ mainPc' = "start"
    /\ UNCHANGED <<file, dev, fd, m_config, macAddr_str, library, send_callback, gateway_id>>

StartPollFails == mainPc = "poll" /\ ~fd /\ Ends

\* Mutant: main goes to its loop and leaves the callback for later.
StartWormholeAndRun ==
    /\ mainPc = "start"
    /\ library' = TRUE
    /\ mainPc' = "run"
    /\ UNCHANGED <<file, dev, fd, m_config, macAddr_str, g_tun_instance, send_callback,
                   gateway_id>>

\* start(config), which is the first start of this process.
StartWormhole ==
    /\ mainPc = "start"
    /\ library' = TRUE
    /\ mainPc' = "register"
    /\ UNCHANGED <<file, dev, fd, m_config, macAddr_str, g_tun_instance, send_callback,
                   gateway_id>>

Register ==
    /\ mainPc = "register"
    /\ send_callback' = TRUE /\ gateway_id' = TRUE
    /\ mainPc' = "run"
    /\ UNCHANGED <<file, dev, fd, m_config, macAddr_str, g_tun_instance, library>>

-----------------------------------------------------------------------------
(* The rest of the machine *)

\* A kill, a power failure, or the end of the loop.
Crash == mainPc # "down" /\ Ends

\* Another process creates a device of our name, and removes it.
OtherTakesName ==
    /\ dev = NoDevice
    /\ \E mac \in Macs : dev' = [mac |-> mac, ours |-> FALSE]
    /\ UNCHANGED <<file, fd, m_config, macAddr_str, mainPc, started>>

OtherLeavesName ==
    /\ dev # NoDevice /\ ~dev.ours
    /\ dev' = NoDevice
    /\ UNCHANGED <<file, fd, m_config, macAddr_str, mainPc, started>>

Next == LoadFails \/ LoadConfig \/ CreateDevice \/ ConfigureFails \/ ConfigureDevice
        \/ OpenFile \/ WriteFile \/ StartPoll \/ StartPollFails \/ StartWormhole
        \/ Register \/ Crash \/ OtherTakesName \/ OtherLeavesName

Spec == Init /\ [][Next]_vars

-----------------------------------------------------------------------------
(* Properties *)

\* A TAP node in its packet loop has the MAC that its file names, the one other
\* nodes may know it by, also when the kernel chose it in an earlier process
\* (server.cpp:206-217, 223-230).
DeviceHasRecordedMac ==
    (mainPc = "run" /\ m_config.tapMode /\ file.macAddr \in Macs) =>
        dev.mac = file.macAddr

\* A file that names a MAC is never written again, so that no crash can lose the
\* configuration any more (server.cpp:223, config.h:101).
RecordedForGood ==
    [][file.macAddr \in Macs => UNCHANGED file]_vars

\* No packet is read before its way is complete: a descriptor of the process's
\* own device, the buffer, the callback that sends it and the gateway; and no
\* message of the network thread finds no Server (main.cpp:172-176).
LoopIsReady ==
    /\ mainPc = "run" => /\ fd /\ dev # NoDevice /\ dev.ours
                         /\ library /\ send_callback /\ gateway_id
    /\ library => g_tun_instance
=============================================================================
