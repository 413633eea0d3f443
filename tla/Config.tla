------------------------------- MODULE Config -------------------------------
(***************************************************************************)
(* mzConfig of src/main/config.h over the life of a process: the load of   *)
(* main, reloads, and the MAC that setMacAddr writes into the file, while  *)
(* an administrator edits it.                                              *)
(*                                                                         *)
(* A setting is a value of its type, absent, or of another type.  Fields   *)
(* are told apart by how loadConfig reads them and by whether reset        *)
(* restores them: the file's other content is its list of tunnels.  The    *)
(* emptying of the file before it is written is in Startup.                *)
(***************************************************************************)
EXTENDS SequencesExt

CONSTANTS
    Numbers,        \* fields that loadConfig reads with lookup: it throws
    Texts,          \* ... with lookupValue: it leaves the field alone
    KeptTexts,      \* ... with lookupValue, and reset does not restore them
    MacField,       \* macAddr, one of KeptTexts
    Values, Default, Absent, OtherType,
    Macs,           \* values that setMacAddr is called with
    Tunnels, Incomplete,    \* entries of tunnel_list; one lacks a setting
    Broken,         \* no file, or one that does not parse
    Files,          \* that an administrator leaves
    MaxTunnels      \* bound: length of tunnelList at which no reload comes

Fields == Numbers \cup Texts \cup KeptTexts

FileType ==
    [set : [Fields -> Values \cup {Absent, OtherType}],
     tunnels : Seq(Tunnels \cup {Incomplete})]

ASSUME ConfigAssumption ==
    /\ MacField \in KeptTexts /\ Macs \subseteq Values
    /\ KeptTexts \cap (Numbers \cup Texts) = {}
    /\ {Default, Absent, OtherType} \cap Values = {} /\ Incomplete \notin Tunnels
    /\ Broken \notin FileType /\ Files \subseteq FileType \cup {Broken}
    /\ MaxTunnels \in Nat

VARIABLES
    file,
    config,         \* the scalar and text members
    tunnelList,
    fileRead,       \* setMacAddr's cfg between readFile and writeFile
    pc,             \* "down": no process; "setMacAddr": between the two
    loads,          \* history: the files that parsed, in the order of their loads
    lastLoad,       \* history: the file of the last load, Broken ones included
    edited,         \* history: what the administrator left last
    overtaken       \* history: that edit came between a read and its write

vars == <<file, config, tunnelList, fileRead, pc, loads, lastLoad, edited, overtaken>>

Init ==
    /\ file \in Files /\ edited = file /\ overtaken = FALSE
    /\ config = [x \in Fields |-> Default] /\ tunnelList = <<>>
    /\ fileRead = Broken /\ pc = "down" /\ loads = <<>> /\ lastLoad = Broken

-----------------------------------------------------------------------------
(* mzConfig *)

\* Mutant: what the file does not set stays as it was.
ResetNothing(c) == [x \in Fields |-> c[x]]

reset(c) == [x \in Fields |-> IF x \in KeptTexts THEN c[x] ELSE Default]

loaded(c, f) == [x \in Fields |-> IF f.set[x] \in Values THEN f.set[x] ELSE c[x]]

\* lookup of another type throws SettingTypeException, which nobody catches.
Throws(f) == f # Broken /\ \E x \in Numbers : f.set[x] = OtherType

\* Mutant: an entry that lacks a setting is taken all the same.
AllTunnels(f) == f.tunnels

CompleteTunnels(f) ==
    FlattenSeq([i \in DOMAIN f.tunnels |->
                   IF f.tunnels[i] = Incomplete THEN <<>> ELSE <<f.tunnels[i]>>])

Ends ==
    /\ pc' = "down" /\ config' = [x \in Fields |-> Default] /\ tunnelList' = <<>>
    /\ fileRead' = Broken /\ loads' = <<>> /\ lastLoad' = Broken
    /\ UNCHANGED <<file, edited, overtaken>>

\* A load of the file that parses and does not throw, into the members c.
Loads(c) ==
    /\ file # Broken /\ ~Throws(file)
    /\ config' = loaded(c, file)
    /\ tunnelList' = tunnelList \o CompleteTunnels(file)
    /\ loads' = Append(loads, file) /\ lastLoad' = file
    /\ pc' = "run"
    /\ UNCHANGED <<file, fileRead, edited, overtaken>>

\* main ends when the file does not parse.
Start == pc = "down" /\ Loads(config)
StartFails == pc = "down" /\ (file = Broken \/ Throws(file)) /\ UNCHANGED vars

Reload == pc = "run" /\ Len(tunnelList) < MaxTunnels /\ Loads(reset(config))

\* reload ignores what loadConfig returns: the members stay as reset left them.
ReloadBroken ==
    /\ pc = "run" /\ file = Broken
    /\ config' = reset(config) /\ lastLoad' = Broken
    /\ UNCHANGED <<file, tunnelList, fileRead, pc, loads, edited, overtaken>>

ReloadThrows == pc = "run" /\ Throws(file) /\ Ends

SetMacAddrReads ==
    /\ pc = "run" /\ file # Broken
    /\ fileRead' = file /\ pc' = "setMacAddr"
    /\ UNCHANGED <<file, config, tunnelList, loads, lastLoad, edited, overtaken>>

\* Mutant: the file is written from the members.
SetMacAddrWritesMembers ==
    /\ pc = "setMacAddr"
    /\ \E mac \in Macs :
          file' = [set |-> [config EXCEPT ![MacField] = mac], tunnels |-> tunnelList]
    /\ fileRead' = Broken /\ pc' = "run"
    /\ UNCHANGED <<config, tunnelList, loads, lastLoad, edited, overtaken>>

\* The member macAddr stays as it is.
SetMacAddrWrites ==
    /\ pc = "setMacAddr"
    /\ \E mac \in Macs : file' = [fileRead EXCEPT !.set[MacField] = mac]
    /\ fileRead' = Broken /\ pc' = "run"
    /\ UNCHANGED <<config, tunnelList, loads, lastLoad, edited, overtaken>>

\* setMacAddr finds no file to read.
SetMacAddrFails == pc = "run" /\ file = Broken /\ UNCHANGED vars

Stop == pc # "down" /\ Ends

\* The administrator.
Edit ==
    /\ \E f \in Files : file' = f /\ edited' = f
    /\ overtaken' = (pc = "setMacAddr")
    /\ UNCHANGED <<config, tunnelList, fileRead, pc, loads, lastLoad>>

Next == Start \/ StartFails \/ Reload \/ ReloadBroken \/ ReloadThrows \/ SetMacAddrReads
        \/ SetMacAddrWrites \/ SetMacAddrFails \/ Stop \/ Edit

Spec == Init /\ [][Next]_vars

-----------------------------------------------------------------------------
(* Properties *)

\* What a process started on the file of the last load would have.
Fresh(x) ==
    IF lastLoad # Broken /\ lastLoad.set[x] \in Values THEN lastLoad.set[x] ELSE Default

\* After any number of reloads, failed ones included, of edited files, a process is
\* configured as if it had been started on the file it loaded last, as if on an
\* empty one when that failed; but a text that reset forgets stays, when the file
\* no longer sets it, as an earlier load of the process found it
\* (config.h:47-81, 152-337).
ReloadedAsFresh ==
    pc # "down" =>
        /\ \A x \in Numbers \cup Texts : config[x] = Fresh(x)
        /\ \A x \in KeptTexts :
              \/ config[x] = Fresh(x)
              \/ Fresh(x) = Default /\ \E i \in DOMAIN loads : config[x] = loads[i].set[x]

\* Tunnels are never forgotten: the list is that of each load of the process, one
\* after the other, so that an unchanged file has every tunnel once more after
\* each reload, and one that was removed from the file stays; an entry that lacks a
\* setting is never among them (config.h:79, 365-390).
TunnelsOfAllLoads ==
    /\ \A i \in DOMAIN tunnelList : tunnelList[i] \in Tunnels
    /\ tunnelList = FlattenSeq([i \in DOMAIN loads |-> CompleteTunnels(loads[i])])
    /\ lastLoad # Broken => IsSuffix(CompleteTunnels(lastLoad), tunnelList)

\* Recording the MAC leaves the rest of the file as the administrator left it, and
\* never makes a readable file of a broken one, unless the edit fell between the
\* read and the write of setMacAddr: then it may be undone (config.h:101-132).
EditSurvives ==
    ~overtaken =>
        \/ file = edited
        \/ /\ Broken \notin {file, edited}
           /\ \E mac \in Macs : file = [edited EXCEPT !.set[MacField] = mac]
=============================================================================
