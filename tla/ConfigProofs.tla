---------------------------- MODULE ConfigProofs ----------------------------
(***************************************************************************)
(* Config for every set of fields and values, every file an administrator  *)
(* may leave, and any number of reloads.                                   *)
(***************************************************************************)
EXTENDS Config, FiniteSetTheorems, WellFoundedInduction, SequenceTheorems, TLAPS

-----------------------------------------------------------------------------
(* setMacAddr *)

\* While setMacAddr is between its read and its write, it holds what the
\* administrator left, with a MAC of an earlier call or without, and so does the
\* file, unless an edit has come in between.
RecordedOver(left, f) ==
    \/ f = left
    \/ /\ Broken \notin {f, left}
       /\ \E mac \in Macs : f = [left EXCEPT !.set[MacField] = mac]

Recorded(f) == RecordedOver(edited, f)

HeldAsLeft ==
    /\ file \in FileType \cup {Broken} /\ edited \in FileType \cup {Broken}
    /\ pc = "setMacAddr" => fileRead \in FileType
    /\ ~overtaken => Recorded(file) /\ (pc = "setMacAddr" => Recorded(fileRead))

\* A MAC recorded over one recorded before is a MAC recorded over the file as the
\* administrator left it.
LEMMA RecordedAgain ==
    ASSUME NEW f \in FileType, edited \in FileType \cup {Broken}, Recorded(f), NEW mac \in Macs
    PROVE  LET g == [f EXCEPT !.set[MacField] = mac]
           IN  g \in FileType /\ RecordedOver(edited, g)
<1> DEFINE g == [f EXCEPT !.set[MacField] = mac]
           cells == Values \cup {Absent, OtherType}
           With(x) == [edited EXCEPT !.set[MacField] = x]
<1>1. mac \in cells /\ MacField \in Fields
  BY ConfigAssumption DEF Fields
<1>2. /\ f.set \in [Fields -> cells]
      /\ g = [set |-> [f.set EXCEPT ![MacField] = mac], tunnels |-> f.tunnels]
  BY DEF FileType
<1>3. [f.set EXCEPT ![MacField] = mac] \in [Fields -> cells]
  BY <1>1, <1>2
<1>4. g \in FileType
  BY <1>2, <1>3 DEF FileType
<1>5. edited \in FileType
  BY ConfigAssumption DEF Recorded, RecordedOver
<1>6. /\ edited.set \in [Fields -> cells]
      /\ \A x : With(x) = [set |-> [edited.set EXCEPT ![MacField] = x], tunnels |-> edited.tunnels]
  BY <1>5 DEF FileType
<1>7. g = With(mac)
  <2>1. CASE f = edited
    BY <2>1
  <2>2. CASE \E x \in Macs : f = With(x)
    <3>1. PICK x \in Macs : f = With(x)
      BY <2>2
    <3>2. f.set = [edited.set EXCEPT ![MacField] = x] /\ f.tunnels = edited.tunnels
      BY <1>6, <3>1
    <3>3. [f.set EXCEPT ![MacField] = mac] = [edited.set EXCEPT ![MacField] = mac]
      BY <1>1, <1>6, <3>2
    <3> QED BY <1>2, <1>6, <3>2, <3>3
  <2> QED BY <2>1, <2>2 DEF Recorded, RecordedOver
<1>8. Broken \notin {edited, g}
  BY <1>4, <1>5, ConfigAssumption
<1> QED BY <1>4, <1>7, <1>8 DEF RecordedOver

\* Every step keeps HeldAsLeft.
LEMMA HeldStep ==
    ASSUME HeldAsLeft, [Next]_vars
    PROVE  HeldAsLeft'
<1> USE DEF HeldAsLeft
<1>1. ASSUME UNCHANGED <<file, edited, overtaken>>, pc' = "setMacAddr" => pc = "setMacAddr",
             pc' = "setMacAddr" => fileRead' = fileRead
      PROVE  HeldAsLeft'
  BY <1>1 DEF Recorded, RecordedOver
<1>2. CASE Start \/ StartFails \/ Reload \/ ReloadBroken \/ ReloadThrows
           \/ SetMacAddrFails \/ Stop \/ UNCHANGED vars
  BY <1>1, <1>2 DEF Start, StartFails, Reload, ReloadBroken, ReloadThrows, SetMacAddrFails,
                    Stop, Ends, Loads, vars
<1>3. CASE SetMacAddrReads
  BY <1>3 DEF SetMacAddrReads, Recorded
<1>4. CASE SetMacAddrWrites
  <2>1. PICK mac \in Macs : file' = [fileRead EXCEPT !.set[MacField] = mac]
    BY <1>4 DEF SetMacAddrWrites
  <2>2. fileRead \in FileType /\ pc' = "run" /\ UNCHANGED <<edited, overtaken>>
    BY <1>4 DEF SetMacAddrWrites
  <2>3. ASSUME NEW f \in FileType
        PROVE  [f EXCEPT !.set[MacField] = mac] \in FileType
    <3>1. mac \in Values \cup {Absent, OtherType} /\ MacField \in Fields
      BY ConfigAssumption DEF Fields
    <3> QED BY <3>1 DEF FileType
  <2>4. file' \in FileType
    BY <2>1, <2>2, <2>3
  <2>5. ASSUME ~overtaken PROVE Recorded(file)'
    <3>1. Recorded(fileRead) /\ edited \in FileType \cup {Broken}
      BY <1>4, <2>5 DEF SetMacAddrWrites
    <3>2. RecordedOver(edited, [fileRead EXCEPT !.set[MacField] = mac])
      BY <2>2, <3>1, RecordedAgain
    <3>3. RecordedOver(edited, file')
      BY <2>1, <3>2
    <3> QED BY <2>2, <3>3 DEF Recorded
  <2> QED BY <2>2, <2>4, <2>5
<1>5. CASE Edit
  <2>1. file' \in FileType \cup {Broken} /\ edited' = file'
    BY <1>5, ConfigAssumption DEF Edit
  <2>2. UNCHANGED <<pc, fileRead>> /\ overtaken' = (pc = "setMacAddr")
    BY <1>5 DEF Edit
  <2> QED BY <2>1, <2>2 DEF Recorded, RecordedOver
<1> QED BY <1>2, <1>3, <1>4, <1>5 DEF Next

\* setMacAddr changes the MAC of the file and nothing else that the administrator
\* wrote, however often it runs (config.h:101-132).
THEOREM EditsStay == Spec => []EditSurvives
<1>1. Init => HeldAsLeft
  BY ConfigAssumption DEF Init, HeldAsLeft, Recorded, RecordedOver
<1>2. HeldAsLeft /\ [Next]_vars => HeldAsLeft'
  BY HeldStep
<1>3. HeldAsLeft => EditSurvives
  BY DEF HeldAsLeft, Recorded, RecordedOver, EditSurvives
<1> QED BY <1>1, <1>2, <1>3, PTL DEF Spec

-----------------------------------------------------------------------------
(* Reloads *)

\* No process has loaded anything before it starts, and the file of the last good
\* load is on record.
Loaded ==
    /\ DOMAIN config = Fields
    /\ file \in FileType \cup {Broken}
    /\ loads \in Seq(FileType)
    /\ pc = "down" => config = [x \in Fields |-> Default]
    /\ lastLoad # Broken => \E i \in DOMAIN loads : loads[i] = lastLoad

\* A value that an earlier load found, or the value of a fresh start.
Found(x) == \E i \in DOMAIN loads : config[x] = loads[i].set[x]

\* A load adds its file to those on record.
LEMMA LoadRecorded ==
    ASSUME Loaded, NEW c, Loads(c)
    PROVE  /\ loads' \in Seq(FileType)
           /\ \A i \in DOMAIN loads : i \in DOMAIN loads' /\ loads'[i] = loads[i]
           /\ \E i \in DOMAIN loads' : loads'[i] = file
<1>1. file \in FileType /\ loads \in Seq(FileType) /\ loads' = Append(loads, file)
  BY DEF Loaded, Loads
<1>2. loads' \in Seq(FileType) /\ Len(loads') = Len(loads) + 1
  BY <1>1
<1>3. \A i \in DOMAIN loads : i \in DOMAIN loads' /\ loads'[i] = loads[i]
  BY <1>1
<1>4. Len(loads) + 1 \in DOMAIN loads' /\ loads'[Len(loads) + 1] = file
  BY <1>1
<1> QED BY <1>2, <1>3, <1>4

\* A load into members that reset has restored gives them the values of a fresh
\* start, but for the texts that reset leaves.
LEMMA LoadIsFresh ==
    ASSUME Loaded, NEW c, Loads(c), DOMAIN c = Fields,
           \A x \in Numbers \cup Texts : c[x] = Default,
           \A x \in KeptTexts : c[x] = Default \/ \E i \in DOMAIN loads : c[x] = loads[i].set[x]
    PROVE  ReloadedAsFresh'
<1>1. /\ config' = [x \in Fields |-> IF file.set[x] \in Values THEN file.set[x] ELSE c[x]]
      /\ lastLoad' = file /\ file # Broken
  BY DEF Loads, loaded
<1>2. \A x : Fresh(x)' = IF file.set[x] \in Values THEN file.set[x] ELSE Default
  BY <1>1 DEF Fresh
<1>3. \A x \in Numbers \cup Texts : config'[x] = Fresh(x)'
  BY <1>1, <1>2 DEF Fields
<1>4. ASSUME NEW x \in KeptTexts
      PROVE  \/ config'[x] = Fresh(x)'
             \/ Fresh(x)' = Default /\ \E i \in DOMAIN loads' : config'[x] = loads'[i].set[x]
  <2>1. CASE file.set[x] \in Values
    BY <1>1, <1>2, <2>1 DEF Fields
  <2>2. CASE file.set[x] \notin Values
    <3>1. config'[x] = c[x] /\ Fresh(x)' = Default
      BY <1>1, <1>2, <2>2 DEF Fields
    <3>2. CASE c[x] = Default
      BY <3>1, <3>2
    <3>3. CASE \E i \in DOMAIN loads : c[x] = loads[i].set[x]
      BY <3>1, <3>3, LoadRecorded
    <3> QED BY <3>2, <3>3
  <2> QED BY <2>1, <2>2
<1> QED BY <1>3, <1>4 DEF ReloadedAsFresh

\* What a running process has in a text that reset leaves is a default, or was
\* found by one of its loads.
LEMMA KeptIsFound ==
    ASSUME Loaded, ReloadedAsFresh, pc # "down", NEW x \in KeptTexts
    PROVE  config[x] = Default \/ Found(x)
<1>1. CASE config[x] = Fresh(x)
  BY <1>1 DEF Loaded, Fresh, Found
<1>2. CASE Found(x)
  BY <1>2
<1> QED BY <1>1, <1>2 DEF ReloadedAsFresh, Found

\* Every step keeps a process configured as its last load would by itself.
LEMMA LoadedStep ==
    ASSUME Loaded, ReloadedAsFresh, HeldAsLeft', [Next]_vars
    PROVE  (Loaded /\ ReloadedAsFresh)'
<1>1. ASSUME NEW c, DOMAIN c = Fields, Loads(c) PROVE Loaded'
  <2>1. DOMAIN config' = Fields /\ pc' = "run" /\ lastLoad' = file /\ file' = file
    BY <1>1 DEF Loads, loaded
  <2> QED BY <1>1, <2>1, LoadRecorded DEF Loaded
<1>2. CASE Start
  <2>1. /\ DOMAIN config = Fields /\ Loads(config)
        /\ \A x \in Fields : config[x] = Default
    BY <1>2 DEF Start, Loaded
  <2> QED BY <1>1, <2>1, LoadIsFresh DEF Fields
<1>3. CASE Reload
  <2>1. pc # "down" /\ Loads(reset(config)) /\ DOMAIN reset(config) = Fields
    BY <1>3 DEF Reload, reset
  <2>2. \A x \in Numbers \cup Texts : reset(config)[x] = Default
    BY ConfigAssumption DEF reset, Fields
  <2>3. \A x \in KeptTexts : reset(config)[x] = config[x]
    BY DEF reset, Fields
  <2>4. \A x \in KeptTexts : \/ reset(config)[x] = Default
                             \/ \E i \in DOMAIN loads : reset(config)[x] = loads[i].set[x]
    BY <2>1, <2>3, KeptIsFound DEF Found
  <2> QED BY <1>1, <2>1, <2>2, <2>4, LoadIsFresh
<1>4. CASE ReloadBroken
  <2>1. /\ pc # "down" /\ config' = reset(config) /\ lastLoad' = Broken
        /\ UNCHANGED <<file, pc, loads>>
    BY <1>4 DEF ReloadBroken
  <2>2. \A x : Fresh(x)' = Default
    BY <2>1 DEF Fresh
  <2>3. \A x \in Numbers \cup Texts : config'[x] = Default
    BY <2>1, ConfigAssumption DEF reset, Fields
  <2>4. \A x \in KeptTexts : config'[x] = config[x]
    BY <2>1 DEF reset, Fields
  <2>5. ReloadedAsFresh'
    BY <2>1, <2>2, <2>3, <2>4, KeptIsFound DEF ReloadedAsFresh, Found
  <2> QED BY <2>1, <2>5 DEF Loaded, reset
<1>5. CASE ReloadThrows \/ Stop
  <2>1. Ends
    BY <1>5 DEF ReloadThrows, Stop
  <2> QED BY <2>1 DEF Ends, Loaded, ReloadedAsFresh
<1>6. ASSUME UNCHANGED <<config, loads, lastLoad>>, file' \in FileType \cup {Broken},
             pc' = "down" <=> pc = "down"
      PROVE  (Loaded /\ ReloadedAsFresh)'
  BY <1>6 DEF Loaded, ReloadedAsFresh, Fresh
<1>7. CASE StartFails \/ SetMacAddrReads \/ SetMacAddrFails \/ UNCHANGED vars
  BY <1>6, <1>7 DEF StartFails, SetMacAddrReads, SetMacAddrFails, vars, Loaded
<1>8. CASE Edit
  BY <1>6, <1>8, ConfigAssumption DEF Edit
<1>9. CASE SetMacAddrWrites
  BY <1>6, <1>9 DEF SetMacAddrWrites, HeldAsLeft
<1> QED BY <1>2, <1>3, <1>4, <1>5, <1>7, <1>8, <1>9 DEF Next

\* However the file is edited, broken and loaded again, a process is configured as
\* a fresh start on the file of its last load would, but for the texts that reset
\* forgets (config.h:47-81, 152-337).
THEOREM ReloadsAreFresh == Spec => []ReloadedAsFresh
<1>1. Init => HeldAsLeft /\ Loaded /\ ReloadedAsFresh
  BY ConfigAssumption DEF Init, HeldAsLeft, Recorded, RecordedOver, Loaded, ReloadedAsFresh
<1>2. HeldAsLeft /\ [Next]_vars => HeldAsLeft'
  BY HeldStep
<1>3. Loaded /\ ReloadedAsFresh /\ HeldAsLeft' /\ [Next]_vars => (Loaded /\ ReloadedAsFresh)'
  BY LoadedStep
<1> QED BY <1>1, <1>2, <1>3, PTL DEF Spec

-----------------------------------------------------------------------------
(* FlattenSeq: its recursion, by induction over sets of naturals. *)

\* A set of naturals that has 0 and the successor of each of its members has them all.
LEMMA AllNaturals ==
    ASSUME NEW T \in SUBSET Nat, 0 \in T, \A n \in T : n + 1 \in T
    PROVE  T = Nat
<1> SUFFICES ASSUME Nat \ T # {} PROVE FALSE
  OBVIOUS
<1> DEFINE F == {1..n : n \in Nat \ T}
<1>1. F \subseteq FiniteSubsetsOf(Nat)
  <2> SUFFICES ASSUME NEW n \in Nat PROVE 1..n \in FiniteSubsetsOf(Nat)
    OBVIOUS
  <2>1. IsFiniteSet(1..n)
    BY FS_Interval
  <2> QED BY <2>1 DEF FiniteSubsetsOf
<1>2. F # {}
  OBVIOUS
<1>3. \E X \in F : \A Y \in F : <<Y, X>> \notin StrictSubsetOrdering(Nat)
  <2> HIDE DEF F
  <2> QED BY <1>1, <1>2, FS_StrictSubsetOrderingWellFounded, WFMin
<1>4. PICK x \in Nat \ T : \A y \in Nat \ T : <<1..y, 1..x>> \notin StrictSubsetOrdering(Nat)
  BY <1>3
<1>5. x - 1 \in Nat \ T
  OBVIOUS
<1>6. 1..(x-1) \in SUBSET Nat /\ 1..x \in SUBSET Nat /\ 1..(x-1) \subseteq 1..x
  BY <1>5
<1>7. x \in 1..x /\ x \notin 1..(x-1)
  BY <1>5
<1> QED BY <1>4, <1>5, <1>6, <1>7 DEF StrictSubsetOrdering

\* ss and tt have the same first n elements.
Agree(ss, tt, n) == \A i \in 1..n : tt[i] = ss[i]

\* f is the function that FlattenSeq defines by recursion, on the first n elements of
\* ss: f[i] is the first i of them, one after the other.
Flattens(f, ss, n) ==
    /\ DOMAIN f = 1..n
    /\ n > 0 => f[1] = ss[1]
    /\ \A i \in Nat : 0 < i /\ i < n => f[i+1] = f[i] \o ss[i+1]

\* There is such a function, whose values are sequences.
LEMMA FlattenExists ==
    ASSUME NEW A, NEW ss \in Seq(Seq(A)), NEW n \in 0..Len(ss)
    PROVE  \E f \in [1..n -> Seq(A)] : Flattens(f, ss, n)
<1> DEFINE T == {m \in Nat : m =< Len(ss) => \E f \in [1..m -> Seq(A)] : Flattens(f, ss, m)}
<1>1. 0 \in T
  <2>1. <<>> \in [1..0 -> Seq(A)] /\ Flattens(<<>>, ss, 0)
    BY DEF Flattens
  <2> QED BY <2>1
<1>2. ASSUME NEW m \in T PROVE m + 1 \in T
  <2> SUFFICES ASSUME m + 1 =< Len(ss)
               PROVE  \E g \in [1..m+1 -> Seq(A)] : Flattens(g, ss, m + 1)
    OBVIOUS
  <2>0. m \in Nat /\ ss[m+1] \in Seq(A)
    OBVIOUS
  <2>1. PICK f \in [1..m -> Seq(A)] : Flattens(f, ss, m)
    OBVIOUS
  <2> DEFINE last == IF m = 0 THEN ss[1] ELSE f[m] \o ss[m+1]
             g == [i \in 1..m+1 |-> IF i = m + 1 THEN last ELSE f[i]]
  <2>2. last \in Seq(A)
    BY <2>0, ConcatProperties
  <2>3. g \in [1..m+1 -> Seq(A)]
    <3> HIDE DEF last
    <3> QED BY <2>0, <2>2
  <2>4. ASSUME NEW i \in Nat, 0 < i, i < m + 1 PROVE g[i+1] = g[i] \o ss[i+1]
    <3>0. i \in 1..m /\ i \in 1..m+1 /\ i + 1 \in 1..m+1
      BY <2>0, <2>4
    <3>1. g[i] = f[i] /\ g[i+1] = IF i = m THEN last ELSE f[i+1]
      <4> HIDE DEF last
      <4> QED BY <2>0, <3>0
    <3>2. i = m => last = f[i] \o ss[i+1]
      <4> SUFFICES ASSUME i = m PROVE last = f[i] \o ss[i+1]
        OBVIOUS
      <4>1. m # 0
        BY <2>4
      <4>2. last = f[m] \o ss[m+1]
        BY <4>1
      <4> HIDE DEF last
      <4> QED BY <4>2
    <3>3. i # m => f[i+1] = f[i] \o ss[i+1]
      <4> SUFFICES ASSUME i # m PROVE f[i+1] = f[i] \o ss[i+1]
        OBVIOUS
      <4>1. 0 < i /\ i < m
        BY <2>0, <3>0
      <4> QED BY <2>1, <4>1 DEF Flattens
    <3> HIDE DEF g, last
    <3> QED BY <3>1, <3>2, <3>3
  <2>5. DOMAIN g = 1..m+1 /\ g[1] = ss[1]
    BY <2>0, <2>1 DEF Flattens
  <2>6. Flattens(g, ss, m + 1)
    <3> HIDE DEF g
    <3> QED BY <2>4, <2>5 DEF Flattens
  <2> HIDE DEF g
  <2> QED BY <2>3, <2>6
<1> HIDE DEF T
<1>3. T = Nat
  BY <1>1, <1>2, AllNaturals DEF T
<1>4. n \in T /\ n =< Len(ss)
  BY <1>3
<1> QED BY <1>4 DEF T

\* There is one only, and what comes later in the sequence does not change it.
LEMMA FlattenUnique ==
    ASSUME NEW ss, NEW tt, NEW f, NEW g, NEW m \in Nat, NEW n \in Nat, NEW k \in 1..m,
           Flattens(f, ss, m), Flattens(g, tt, n), m =< n, Agree(ss, tt, m)
    PROVE  g[k] = f[k]
<1> DEFINE T == {i \in Nat : i \in 1..m => g[i] = f[i]}
<1>1. 0 \in T
  OBVIOUS
<1>2. ASSUME NEW i \in T PROVE i + 1 \in T
  <2> SUFFICES ASSUME i + 1 \in 1..m PROVE g[i+1] = f[i+1]
    OBVIOUS
  <2>1. i \in Nat /\ (i > 0 => i \in 1..m) /\ i < m /\ i < n
    OBVIOUS
  <2>2. CASE i = 0
    BY <2>1, <2>2 DEF Flattens, Agree
  <2>3. CASE i > 0
    <3>1. f[i+1] = f[i] \o ss[i+1] /\ g[i+1] = g[i] \o tt[i+1]
      BY <2>1, <2>3 DEF Flattens
    <3>2. g[i] = f[i] /\ tt[i+1] = ss[i+1]
      BY <2>1, <2>3 DEF Agree
    <3> QED BY <3>1, <3>2
  <2> QED BY <2>1, <2>2, <2>3
<1>3. T = Nat
  <2> HIDE DEF T
  <2>1. T \in SUBSET Nat
    BY DEF T
  <2> QED BY <1>1, <1>2, <2>1, AllNaturals
<1> QED BY <1>3

\* FlattenSeq is the last value of that function.
LEMMA FlattenIs ==
    ASSUME NEW A, NEW ss \in Seq(Seq(A)), ss # <<>>
    PROVE  \E f \in [1..Len(ss) -> Seq(A)] : Flattens(f, ss, Len(ss)) /\ FlattenSeq(ss) = f[Len(ss)]
<1> DEFINE n == Len(ss)
           Sat(f) == f = [i \in 1..n |-> IF i = 1 THEN ss[i] ELSE f[i-1] \o ss[i]]
           F == CHOOSE f : Sat(f)
<1>0. n \in Nat /\ n # 0
  OBVIOUS
<1>1. FlattenSeq(ss) = F[n]
  BY <1>0 DEF FlattenSeq
<1>2. PICK f \in [1..n -> Seq(A)] : Flattens(f, ss, n)
  <2>1. n \in 0..Len(ss)
    OBVIOUS
  <2> HIDE DEF n
  <2> QED BY <2>1, FlattenExists
<1>3. Sat(f)
  <2> SUFFICES ASSUME NEW i \in 1..n PROVE f[i] = IF i = 1 THEN ss[i] ELSE f[i-1] \o ss[i]
    BY <1>2
  <2>1. CASE i = 1
    BY <1>2, <2>1 DEF Flattens
  <2>2. CASE i # 1
    <3>1. i - 1 \in Nat /\ 0 < i - 1 /\ i - 1 < n /\ (i - 1) + 1 = i
      BY <2>2
    <3>2. f[(i-1)+1] = f[i-1] \o ss[(i-1)+1]
      <4> HIDE DEF n
      <4> QED BY <1>2, <3>1 DEF Flattens
    <3> QED BY <2>2, <3>1, <3>2
  <2> QED BY <2>1, <2>2
<1>4. Sat(F)
  <2> HIDE DEF Sat
  <2> QED BY <1>3
<1>5. Flattens(F, ss, n)
  <2> HIDE DEF F, n
  <2>1. DOMAIN F = 1..n
    BY <1>4
  <2>2. \A i \in 1..n : F[i] = IF i = 1 THEN ss[i] ELSE F[i-1] \o ss[i]
    BY <1>4
  <2> HIDE DEF Sat
  <2>3. F[1] = ss[1]
    BY <1>0, <2>2
  <2>4. ASSUME NEW i \in Nat, 0 < i, i < n PROVE F[i+1] = F[i] \o ss[i+1]
    <3>1. i + 1 \in 1..n /\ i + 1 # 1 /\ (i + 1) - 1 = i
      BY <1>0, <2>4
    <3>2. F[i+1] = F[(i+1)-1] \o ss[i+1]
      BY <2>2, <3>1
    <3> QED BY <3>1, <3>2
  <2> QED BY <2>1, <2>3, <2>4 DEF Flattens
<1>6. F[n] = f[n]
  <2>1. n \in 1..n /\ Agree(ss, ss, n)
    BY <1>0 DEF Agree
  <2> HIDE DEF F, n
  <2> QED BY <2>1, <1>0, <1>2, <1>5, FlattenUnique
<1> QED BY <1>1, <1>2, <1>6

\* FlattenSeq makes a sequence of a sequence of sequences.
LEMMA FlattenType ==
    ASSUME NEW A, NEW ss \in Seq(Seq(A))
    PROVE  FlattenSeq(ss) \in Seq(A)
<1>1. CASE ss = <<>>
  BY <1>1 DEF FlattenSeq
<1>2. CASE ss # <<>>
  <2>1. PICK f \in [1..Len(ss) -> Seq(A)] : FlattenSeq(ss) = f[Len(ss)]
    BY <1>2, FlattenIs
  <2>2. Len(ss) \in 1..Len(ss)
    BY <1>2
  <2> QED BY <2>1, <2>2
<1> QED BY <1>1, <1>2

\* What is appended to the sequence comes last.
LEMMA FlattenAppend ==
    ASSUME NEW A, NEW ss \in Seq(Seq(A)), NEW s \in Seq(A)
    PROVE  FlattenSeq(Append(ss, s)) = FlattenSeq(ss) \o s
<1> DEFINE n == Len(ss)
           tt == Append(ss, s)
<1>0. /\ n \in Nat /\ tt \in Seq(Seq(A)) /\ tt # <<>> /\ Len(tt) = n + 1
      /\ tt[n+1] = s /\ \A i \in 1..n : tt[i] = ss[i]
  <2> DEFINE B == Seq(A)
  <2>1. ss \in Seq(B) /\ s \in B /\ n \in Nat
    OBVIOUS
  <2> HIDE DEF B, n
  <2>2. /\ Append(ss, s) \in Seq(B) /\ Append(ss, s) # <<>>
        /\ Len(Append(ss, s)) = Len(ss) + 1
        /\ \A i \in 1..Len(ss) : Append(ss, s)[i] = ss[i]
        /\ Append(ss, s)[Len(ss)+1] = s
    BY <2>1, AppendProperties
  <2>3. B = Seq(A) /\ n = Len(ss)
    BY DEF B, n
  <2> HIDE DEF tt
  <2>4. tt = Append(ss, s)
    BY DEF tt
  <2> QED BY <2>1, <2>2, <2>3, <2>4, Zenon
<1> HIDE DEF tt
<1>1. PICK g : Flattens(g, tt, Len(tt)) /\ FlattenSeq(tt) = g[Len(tt)]
  <2> DEFINE m == Len(tt)
  <2>1. \E g \in [1..m -> Seq(A)] : Flattens(g, tt, m) /\ FlattenSeq(tt) = g[m]
    BY <1>0, FlattenIs
  <2> HIDE DEF m
  <2>2. \E g : Flattens(g, tt, m) /\ FlattenSeq(tt) = g[m]
    BY <2>1
  <2> QED BY <2>2 DEF m
<1>2. Flattens(g, tt, n+1) /\ FlattenSeq(tt) = g[n+1]
  BY <1>0, <1>1
<1>3. CASE ss = <<>>
  <2>1. n = 0 /\ FlattenSeq(ss) = <<>>
    BY <1>3 DEF FlattenSeq
  <2>2. FlattenSeq(tt) = s
    BY <1>0, <1>2, <2>1 DEF Flattens
  <2> QED BY <2>1, <2>2 DEF tt
<1>4. CASE ss # <<>>
  <2>1. PICK f : Flattens(f, ss, n) /\ FlattenSeq(ss) = f[n]
    BY <1>4, FlattenIs
  <2>2. n \in 1..n /\ n =< n + 1 /\ 0 < n /\ n < n + 1 /\ n + 1 \in Nat
    BY <1>0, <1>4
  <2>2a. Flattens(f, ss, n)
    BY <2>1
  <2>2b. Flattens(g, tt, n+1)
    BY <1>2
  <2>2c. n \in Nat /\ Agree(ss, tt, n)
    BY <1>0 DEF Agree
  <2> HIDE DEF n
  <2>3. g[n] = f[n]
    <3> DEFINE q == n + 1
    <3>1. q \in Nat /\ n =< q /\ Flattens(g, tt, q)
      BY <2>2, <2>2b
    <3> HIDE DEF q
    <3> QED BY <3>1, <2>2, <2>2a, <2>2c, FlattenUnique
  <2>4. g[n+1] = g[n] \o tt[n+1]
    BY <2>2, <2>2c, <2>2b DEF Flattens
  <2>5. g[n+1] = f[n] \o s
    BY <2>3, <2>4, <1>0
  <2> QED BY <1>2, <2>1, <2>5 DEF tt
<1> QED BY <1>3, <1>4

-----------------------------------------------------------------------------
(* Tunnels *)

\* What a load takes of tunnel_list are complete tunnels.
LEMMA CompleteTunnelsType ==
    ASSUME NEW f \in FileType
    PROVE  CompleteTunnels(f) \in Seq(Tunnels)
<1> DEFINE n == Len(f.tunnels)
           ss == [i \in DOMAIN f.tunnels |->
                    IF f.tunnels[i] = Incomplete THEN <<>> ELSE <<f.tunnels[i]>>]
<1>1. f.tunnels \in Seq(Tunnels \cup {Incomplete})
  BY DEF FileType
<1>2. n \in Nat /\ DOMAIN f.tunnels = 1..n
      /\ \A i \in 1..n : f.tunnels[i] \in Tunnels \cup {Incomplete}
  BY <1>1
<1>3. \A i \in 1..n : ss[i] \in Seq(Tunnels)
  BY <1>2
<1>4. ss \in Seq(Seq(Tunnels))
  <2> DEFINE S == Seq(Tunnels)
  <2>1. ss \in [1..n -> S]
    BY <1>2, <1>3
  <2> HIDE DEF S, ss, n
  <2>2. ss \in Seq(S)
    BY <1>2, <2>1
  <2> QED BY <2>2 DEF S
<1> HIDE DEF ss
<1>5. FlattenSeq(ss) \in Seq(Tunnels)
  BY <1>4, FlattenType
<1> QED BY <1>5 DEF CompleteTunnels, ss

\* A sequence is a suffix of what it is appended to.
LEMMA SuffixOfConcat ==
    ASSUME NEW A, NEW p \in Seq(A), NEW s \in Seq(A)
    PROVE  IsSuffix(s, p \o s)
<1> DEFINE t == p \o s
           m == Len(s)
           n == Len(t)
<1>1. /\ t \in Seq(A) /\ m \in Nat /\ n \in Nat /\ Len(p) \in Nat /\ n = Len(p) + m
      /\ \A i \in 1..n : t[i] = IF i =< Len(p) THEN p[i] ELSE s[i - Len(p)]
  BY ConcatProperties
<1> HIDE DEF t
<1>2. \A k \in 1..m : Reverse(s)[k] = s[m - k + 1]
  BY <1>1 DEF Reverse
<1>3. \A k \in 1..n : Reverse(t)[k] = t[n - k + 1]
  BY <1>1 DEF Reverse
<1>4. Len(Reverse(s)) = m /\ Len(Reverse(t)) = n /\ m =< n
  BY <1>1 DEF Reverse
<1>5. ASSUME NEW k \in 1..m PROVE Reverse(t)[k] = Reverse(s)[k]
  <2>1. n - k + 1 \in 1..n /\ n - k + 1 > Len(p) /\ n - k + 1 - Len(p) = m - k + 1
    BY <1>1
  <2>2. t[n - k + 1] = s[m - k + 1]
    BY <1>1, <2>1
  <2> QED BY <1>1, <1>2, <1>3, <2>2
<1>6. SubSeq(Reverse(s), 1, m) = SubSeq(Reverse(t), 1, m)
  BY <1>1, <1>5
<1> QED BY <1>4, <1>6 DEF IsSuffix, IsPrefix, t

\* The list of the members has the tunnels of each load, those of the last one at
\* its end.
Gathered ==
    /\ file \in FileType \cup {Broken}
    /\ loads \in Seq(FileType)
    /\ tunnelList = FlattenSeq([i \in DOMAIN loads |-> CompleteTunnels(loads[i])])
    /\ lastLoad # Broken =>
          /\ lastLoad \in FileType
          /\ \E before \in Seq(Tunnels) : tunnelList = before \o CompleteTunnels(lastLoad)

LEMMA GatheredType ==
    ASSUME NEW ls \in Seq(FileType)
    PROVE  [i \in DOMAIN ls |-> CompleteTunnels(ls[i])] \in Seq(Seq(Tunnels))
<1> DEFINE S == Seq(Tunnels)
           ss == [i \in DOMAIN ls |-> CompleteTunnels(ls[i])]
           n == Len(ls)
<1>1. n \in Nat /\ DOMAIN ls = 1..n /\ \A i \in 1..n : ls[i] \in FileType
  OBVIOUS
<1>2. \A i \in 1..n : CompleteTunnels(ls[i]) \in S
  BY <1>1, CompleteTunnelsType
<1>3. ss \in [1..n -> S]
  <2> HIDE DEF S, n
  <2> QED BY <1>1, <1>2
<1> HIDE DEF S, ss, n
<1>4. ss \in Seq(S)
  BY <1>1, <1>3
<1> QED BY <1>4 DEF S, ss

\* A load appends its tunnels.
LEMMA LoadGathers ==
    ASSUME Gathered, NEW c, Loads(c)
    PROVE  Gathered'
<1> DEFINE Taken(ls) == [i \in DOMAIN ls |-> CompleteTunnels(ls[i])]
           more == CompleteTunnels(file)
<1>1. /\ file \in FileType /\ loads \in Seq(FileType) /\ loads' = Append(loads, file)
      /\ tunnelList' = tunnelList \o more
      /\ lastLoad' = file /\ file' = file
  BY DEF Gathered, Loads
<1>2. loads' \in Seq(FileType)
  BY <1>1
<1>3. more \in Seq(Tunnels) /\ Taken(loads) \in Seq(Seq(Tunnels))
  BY <1>1, CompleteTunnelsType, GatheredType
<1>4. Taken(loads') = Append(Taken(loads), more)
  <2> DEFINE n == Len(loads)
  <2>1. n \in Nat /\ DOMAIN loads = 1..n /\ DOMAIN loads' = 1..n+1
        /\ loads'[n+1] = file /\ \A i \in 1..n : loads'[i] = loads[i]
    BY <1>1
  <2> HIDE DEF n, more
  <2>2. Taken(loads')[n+1] = more /\ \A i \in 1..n : Taken(loads')[i] = Taken(loads)[i]
    BY <2>1 DEF more
  <2>3. DOMAIN Taken(loads') = 1..n+1 /\ DOMAIN Taken(loads) = 1..n
    BY <2>1
  <2>4. Taken(loads') \in Seq(Seq(Tunnels))
    BY <1>2, GatheredType
  <2> HIDE DEF Taken
  <2> QED BY <1>3, <2>1, <2>2, <2>3, <2>4
<1> HIDE DEF Taken, more
<1>5. FlattenSeq(Taken(loads')) = FlattenSeq(Taken(loads)) \o more
  BY <1>3, <1>4, FlattenAppend
<1>6. tunnelList = FlattenSeq(Taken(loads)) /\ tunnelList \in Seq(Tunnels)
  BY <1>3, FlattenType DEF Gathered, Taken
<1>7. tunnelList' = FlattenSeq(Taken(loads'))
  BY <1>1, <1>5, <1>6
<1>8. \E before \in Seq(Tunnels) : tunnelList' = before \o CompleteTunnels(lastLoad')
  BY <1>1, <1>6 DEF more
<1> QED BY <1>1, <1>2, <1>7, <1>8 DEF Gathered, Taken

\* A process that has ended has gathered nothing.
LEMMA EmptyIsGathered ==
    ASSUME file \in FileType \cup {Broken}, loads = <<>>, tunnelList = <<>>, lastLoad = Broken
    PROVE  Gathered
<1>1. [i \in DOMAIN loads |-> CompleteTunnels(loads[i])] = <<>>
  OBVIOUS
<1>2. FlattenSeq(<<>>) = <<>>
  BY DEF FlattenSeq
<1> QED BY <1>1, <1>2 DEF Gathered

\* Every step keeps the list gathered.
LEMMA GatheredStep ==
    ASSUME Gathered, HeldAsLeft', [Next]_vars
    PROVE  Gathered'
<1>1. CASE Start \/ Reload
  <2>1. PICK c : Loads(c)
    BY <1>1 DEF Start, Reload
  <2> QED BY <2>1, LoadGathers
<1>2. CASE ReloadThrows \/ Stop
  <2>1. Ends
    BY <1>2 DEF ReloadThrows, Stop
  <2>2. /\ file' \in FileType \cup {Broken} /\ loads' = <<>> /\ tunnelList' = <<>>
        /\ lastLoad' = Broken
    BY <2>1 DEF Ends, Gathered
  <2>3. FlattenSeq([i \in DOMAIN loads' |-> CompleteTunnels(loads'[i])]) = <<>>
    BY <2>2 DEF FlattenSeq
  <2> QED BY <2>2, <2>3 DEF Gathered
<1>3. ASSUME UNCHANGED <<loads, tunnelList>>, file' \in FileType \cup {Broken},
             lastLoad' \in {lastLoad, Broken}
      PROVE  Gathered'
  BY <1>3 DEF Gathered
<1>4. CASE StartFails \/ ReloadBroken \/ SetMacAddrReads \/ SetMacAddrWrites
           \/ SetMacAddrFails \/ Edit \/ UNCHANGED vars
  <2>1. UNCHANGED <<loads, tunnelList>> /\ lastLoad' \in {lastLoad, Broken}
    BY <1>4 DEF StartFails, ReloadBroken, SetMacAddrReads, SetMacAddrWrites,
                SetMacAddrFails, Edit, vars
  <2>2. file' \in FileType \cup {Broken}
    BY DEF HeldAsLeft
  <2> QED BY <1>3, <2>1, <2>2
<1> QED BY <1>1, <1>2, <1>4 DEF Next

\* After any number of reloads the list of tunnels is that of every load of the
\* process, one after the other, without the entries that lack a setting
\* (config.h:79, 365-390).
THEOREM TunnelsAccumulate == Spec => []TunnelsOfAllLoads
<1>1. Init => HeldAsLeft /\ Gathered
  <2> SUFFICES ASSUME Init PROVE HeldAsLeft /\ Gathered
    OBVIOUS
  <2>1. HeldAsLeft
    BY ConfigAssumption DEF Init, HeldAsLeft, Recorded, RecordedOver
  <2>2. Gathered
    BY <2>1, EmptyIsGathered DEF Init, HeldAsLeft
  <2> QED BY <2>1, <2>2
<1>2. HeldAsLeft /\ [Next]_vars => HeldAsLeft'
  BY HeldStep
<1>3. Gathered /\ HeldAsLeft' /\ [Next]_vars => Gathered'
  BY GatheredStep
<1>4. Gathered => TunnelsOfAllLoads
  <2> SUFFICES ASSUME Gathered PROVE TunnelsOfAllLoads
    OBVIOUS
  <2>1. tunnelList \in Seq(Tunnels)
    BY GatheredType, FlattenType DEF Gathered
  <2>2. ASSUME lastLoad # Broken PROVE IsSuffix(CompleteTunnels(lastLoad), tunnelList)
    <3>1. PICK before \in Seq(Tunnels) : tunnelList = before \o CompleteTunnels(lastLoad)
      BY <2>2 DEF Gathered
    <3>2. CompleteTunnels(lastLoad) \in Seq(Tunnels)
      BY <2>2, CompleteTunnelsType DEF Gathered
    <3>3. IsSuffix(CompleteTunnels(lastLoad), before \o CompleteTunnels(lastLoad))
      BY <3>2, SuffixOfConcat
    <3> QED BY <3>1, <3>3
  <2> QED BY <2>1, <2>2 DEF TunnelsOfAllLoads, Gathered
<1> QED BY <1>1, <1>2, <1>3, <1>4, PTL DEF Spec
=============================================================================
