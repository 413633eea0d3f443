---------------------------- MODULE StartupProofs ----------------------------
(***************************************************************************)
(* For every set of MACs and of files: the MAC that a TAP node recorded    *)
(* outlives its processes, and the packet loop begins complete.            *)
(***************************************************************************)
EXTENDS Startup, TLAPS

\* The descriptor stands for a device of the process's own.
DescriptorIsOwn == fd <=> (dev # NoDevice /\ dev.ours)

\* The file is the loaded one until it is opened for writing, and only the file
\* of a TAP node that names no MAC is opened.
FileFollowsConfig ==
    /\ mainPc \in {"create", "configure", "setMacAddr"} => file = m_config
    /\ mainPc # "down" => m_config \in File
    /\ mainPc \in {"setMacAddr", "writeFile"} => Saves
    /\ mainPc = "writeFile" => file = EmptyFile

\* What is in the file, or on its way there, is the MAC of the device.
MacFollowsDevice ==
    fd /\ m_config.tapMode =>
        /\ mainPc \in {"setMacAddr", "writeFile"} /\ macAddr_str \in Macs =>
               dev.mac = macAddr_str
        /\ mainPc \in {"poll", "start", "register", "run"} /\ file.macAddr \in Macs =>
               dev.mac = file.macAddr

\* main gets on with what the constructor left it.
MainInOrder ==
    /\ mainPc = "down" => ~fd /\ m_config = NoConfig
    /\ mainPc \in {"start", "register", "run"} => fd
    /\ g_tun_instance <=> mainPc \in {"start", "register", "run"}
    /\ library <=> mainPc \in {"register", "run"}
    /\ mainPc = "run" => send_callback /\ gateway_id

Inv == TypeOK /\ DescriptorIsOwn /\ FileFollowsConfig /\ MacFollowsDevice /\ MainInOrder

Parts == DescriptorIsOwn /\ FileFollowsConfig /\ MacFollowsDevice /\ MainInOrder

\* A step keeps the types; that a file is written from a loaded configuration
\* takes the invariant.
LEMMA StepKeepsTypes == Inv /\ [Next]_vars => TypeOK'
<1> USE StartupAssumption DEF TypeOK
<1> SUFFICES ASSUME Inv, [Next]_vars PROVE TypeOK'
  OBVIOUS
<1> USE DEF Inv, MacTexts, MainPcs, started
<1>1. ASSUME Ends PROVE TypeOK'
  BY <1>1 DEF Ends
<1>2. CASE LoadFails
  BY <1>2 DEF LoadFails, vars
<1>3. CASE LoadConfig
  BY <1>3 DEF LoadConfig
<1>4. CASE CreateDevice
  <2>1. \A mac \in Macs : [mac |-> mac, ours |-> TRUE] \in [mac : Macs, ours : BOOLEAN]
    OBVIOUS
  <2>2. dev' \in [mac : Macs, ours : BOOLEAN] \cup {NoDevice}
    BY <1>4, <2>1 DEF CreateDevice
  <2>3. fd' \in BOOLEAN
    BY <1>4 DEF CreateDevice
  <2>4. QED
    BY <1>4, <2>2, <2>3 DEF CreateDevice
<1>5. CASE ConfigureDevice
  <2>1. dev' \in [mac : Macs, ours : BOOLEAN] \cup {NoDevice}
    BY <1>5 DEF ConfigureDevice
  <2>2. MacOfDevice \in MacTexts
    BY <1>5 DEF ConfigureDevice, MacOfDevice
  <2>3. QED
    BY <1>5, <2>1, <2>2 DEF ConfigureDevice
<1>6. CASE OpenFile
  <2>1. EmptyFile \in File
    BY DEF EmptyFile, File
  <2>2. QED
    BY <1>6, <2>1 DEF OpenFile
<1>7. CASE WriteFile
  <2>1. m_config \in File
    BY <1>7 DEF WriteFile, FileFollowsConfig
  <2>2. file' \in File
    BY <1>7, <2>1 DEF WriteFile, File
  <2>3. QED
    BY <1>7, <2>2 DEF WriteFile
<1>8. CASE StartPoll
  BY <1>8 DEF StartPoll
<1>9. CASE StartWormhole
  BY <1>9 DEF StartWormhole
<1>10. CASE Register
  BY <1>10 DEF Register
<1>11. CASE OtherTakesName
  BY <1>11 DEF OtherTakesName
<1>12. CASE OtherLeavesName
  BY <1>12 DEF OtherLeavesName
<1>13. CASE UNCHANGED vars
  BY <1>13 DEF vars
<1>14. QED
  BY <1>1, <1>2, <1>3, <1>4, <1>5, <1>6, <1>7, <1>8, <1>9, <1>10, <1>11,
     <1>12, <1>13 DEF Next, ConfigureFails, StartPollFails, Crash

\* A step of the process, or of the machine around it, keeps the invariant.
LEMMA StepKeepsInv == Inv /\ TypeOK' /\ [Next]_vars => Inv'
<1> USE StartupAssumption
<1> SUFFICES ASSUME Inv, TypeOK', [Next]_vars PROVE Parts'
  BY DEF Inv, Parts
<1> USE DEF Inv, TypeOK, Parts, DescriptorIsOwn, FileFollowsConfig, MacFollowsDevice,
            MainInOrder, Saves, started
<1>1. ASSUME Ends PROVE Parts'
  BY <1>1 DEF Ends
<1>2. CASE LoadFails
  BY <1>2 DEF LoadFails, vars
<1>3. CASE LoadConfig
  BY <1>3 DEF LoadConfig
<1>4. CASE CreateDevice
  <2>1. CASE UNCHANGED <<dev, fd>>
    BY <1>4, <2>1 DEF CreateDevice
  <2>2. ASSUME NEW mac \in Macs, dev' = [mac |-> mac, ours |-> TRUE], fd'
        PROVE  Parts'
    <3>1. dev' # NoDevice /\ dev'.ours
      <4>1. [mac |-> mac, ours |-> TRUE] \in [mac : Macs, ours : BOOLEAN]
        OBVIOUS
      <4>2. [mac |-> mac, ours |-> TRUE].ours
        OBVIOUS
      <4>3. QED
        BY <2>2, <4>1, <4>2
    <3>2. mainPc = "create" /\ mainPc' = "configure"
      BY <1>4 DEF CreateDevice
    <3>3. UNCHANGED <<file, m_config, macAddr_str, started>>
      BY <1>4 DEF CreateDevice
    <3>4. QED
      BY <2>2, <3>1, <3>2, <3>3
  <2>3. QED
    BY <1>4, <2>1, <2>2 DEF CreateDevice
<1>5. CASE ConfigureDevice
  BY <1>5 DEF ConfigureDevice, MacOfDevice
<1>6. CASE OpenFile
  BY <1>6 DEF OpenFile, EmptyFile
<1>7. CASE WriteFile
  BY <1>7 DEF WriteFile, File
<1>8. CASE StartPoll
  BY <1>8 DEF StartPoll
<1>9. CASE StartWormhole
  BY <1>9 DEF StartWormhole
<1>10. CASE Register
  BY <1>10 DEF Register
<1>11. CASE OtherTakesName
  BY <1>11 DEF OtherTakesName
<1>12. CASE OtherLeavesName
  BY <1>12 DEF OtherLeavesName
<1>13. CASE UNCHANGED vars
  BY <1>13 DEF vars
<1>14. QED
  BY <1>1, <1>2, <1>3, <1>4, <1>5, <1>6, <1>7, <1>8, <1>9, <1>10, <1>11,
     <1>12, <1>13 DEF Next, ConfigureFails, StartPollFails, Crash

\* The inductive invariant: file, device and descriptor at each stage of main.
THEOREM StartupInvariant == Spec => []Inv
<1>1. Init => Inv
  BY StartupAssumption
     DEF Init, Inv, TypeOK, MacTexts, MainPcs, DescriptorIsOwn, FileFollowsConfig,
         MacFollowsDevice, MainInOrder
<1>2. Inv /\ [Next]_vars => Inv'
  BY StepKeepsTypes, StepKeepsInv
<1>3. QED
  BY <1>1, <1>2, PTL DEF Spec

\* A TAP node runs with the MAC its file names, whoever chose it and however
\* many processes ago (server.cpp:206-217, 223-230).
THEOREM MacOutlivesProcess == Spec => []DeviceHasRecordedMac
<1>1. Inv => DeviceHasRecordedMac
  BY DEF Inv, DeviceHasRecordedMac, MacFollowsDevice, MainInOrder
<1>2. QED
  BY <1>1, StartupInvariant, PTL

\* The loop of the packets begins complete, and the network thread finds the
\* Server (main.cpp:172-176).
THEOREM LoopBeginsComplete == Spec => []LoopIsReady
<1>1. Inv => LoopIsReady
  BY DEF Inv, LoopIsReady, DescriptorIsOwn, MainInOrder
<1>2. QED
  BY <1>1, StartupInvariant, PTL

\* No step of any process touches a file that names a MAC (server.cpp:223).
THEOREM FileIsLeftAlone == Spec => RecordedForGood
<1>1. Inv /\ [Next]_vars => [file.macAddr \in Macs => UNCHANGED file]_vars
  <2> SUFFICES ASSUME Inv, Next, file.macAddr \in Macs PROVE UNCHANGED file
    BY DEF vars
  <2>1. mainPc \notin {"setMacAddr", "writeFile"}
    BY StartupAssumption DEF Inv, FileFollowsConfig, Saves, EmptyFile
  <2>2. QED
    BY <2>1 DEF Next, LoadFails, LoadConfig, CreateDevice, ConfigureFails, ConfigureDevice,
       OpenFile, WriteFile, StartPoll, StartPollFails, StartWormhole, Register, Crash,
       Ends, OtherTakesName, OtherLeavesName, vars
<1>2. QED
  BY <1>1, StartupInvariant, PTL DEF Spec, RecordedForGood
=============================================================================
