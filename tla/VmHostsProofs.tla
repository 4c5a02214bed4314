---------------------------- MODULE VmHostsProofs ----------------------------
(* Machine-checked theorems about VmHosts, for every set of hosts, images  *)
(* and jobs, each storage, and whatever command, script or boot fails.     *)
EXTENDS VmHosts, FiniteSetTheorems, SequenceTheorems, TLAPS

(* What may be cloned, and what exist has erred about.                     *)
Built(h, i) == <<h, i>> \in misread \/ (There(h, i) /\ Making(h, i) = {})

(* The host of a task is that of its job, up to cleanup, which takes it    *)
(* from the map first.                                                     *)
PlaceInv(j) ==
    /\ At(j, "destroy") \/ place[j] = jobHost[j]
    /\ At(j, "destroy") => jobHost[j] = NoHost /\ place[j] \in Host
    /\ pc[j] \in {"choosing", "gone"} => jobHost[j] = NoHost
    /\ pc[j] \in {"net", "adding", "enter", "make", "making", "clone", "boot"} => place[j] \in Host

(* The calls of build_image: the outermost is for the image of the job,    *)
(* each next one for the parent of the one before.                         *)
PathInv(j) ==
    /\ pc[j] \notin {"enter", "make", "making"} <=> path[j] = <<>>
    /\ path[j] # <<>> => path[j][1] = VmImage[New(j)]
    /\ \A n \in 1..(Len(path[j]) - 1) : path[j][n + 1] = Parent[path[j][n]]
    /\ Len(path[j]) > 1 => Virsh

(* What a task is about to clone is built.                                 *)
ImageInv(j) ==
    \A h \in Host, i \in Image : h = place[j] /\ i \in Source(j) => Built(h, i)

(* The images that a task has looked for in vain, under their locks, are   *)
(* not there.                                                              *)
Sought(j) == Range(IF At(j, "make") THEN path[j] ELSE Front(path[j]))
MissInv(j) ==
    \A h \in Host, i \in Image :
        h = place[j] /\ path[j] # <<>> /\ i \in Sought(j) =>
            <<h, i>> \in misread \/ ~There(h, i)

(* A lock has one holder, who has it once.                                 *)
LocksAlone ==
    \A j, k \in Job : j # k /\ place[j] = place[k] => Held(j) \intersect Held(k) = {}
Distinct(j) ==
    \A n, m \in 1..Len(path[j]) :
        n < m /\ (m < Len(path[j]) \/ ~At(j, "enter")) => path[j][n] # path[j][m]

BridgeInv(j) ==
    /\ At(j, "adding") => br[j] = bridges[place[j]]
    /\ place[j] # NoHost => \A n \in jobBridge[j] : n < bridges[place[j]]
    /\ place[j] = NoHost /\ ~At(j, "gone") => jobBridge[j] = {}

(* Every machine of a job is accounted for: it failed, it is noted where   *)
(* the job has its host, it is about to boot, or about to be destroyed.    *)
MachineInv(j) ==
    /\ \A h \in Host : \A v \in noted[h] : v[1] = j => v \in machines[h] /\ jobHost[j] = h
    /\ \A h \in Host : \A v \in machines[h] : v[1] = j =>
          \/ v \in lost \/ v \in noted[h]
          \/ At(j, "boot") /\ h = place[j] /\ v = New(j)
          \/ At(j, "destroy") /\ h = place[j] /\ v \in left[j]
    /\ At(j, "boot") => New(j) \in machines[place[j]]
    /\ \A v \in left[j] : v[1] = j
    /\ pc[j] \in {"choosing", "net", "adding", "enter", "make", "making", "clone", "boot"} =>
          Cardinality(Got(j)) < NumVms[j]

(* A bridge whose number is kept after cleanup is of a job that a machine  *)
(* was lost of.                                                            *)
GoneInv(j) == At(j, "gone") => jobBridge[j] = {} \/ \E v \in lost : v[1] = j

AddsAlone == \A j, k \in Job : At(j, "adding") /\ At(k, "adding") /\ place[j] = place[k] => j = k

BridgesInv == (\A j \in Job : BridgeInv(j)) /\ AddsAlone /\ BridgesPrivate
ImagesInv == (\A j \in Job : ImageInv(j) /\ MissInv(j) /\ Distinct(j)) /\ LocksAlone
MachinesInv == \A j \in Job : MachineInv(j) /\ GoneInv(j)

IInv ==
    /\ TypeOK
    /\ \A j \in Job : PlaceInv(j) /\ PathInv(j)
    /\ BridgesInv /\ ImagesInv /\ MachinesInv

------------------------------------------------------------------------------
(* Sequences of images.                                                    *)
LEMMA EmptyPath ==
  ASSUME NEW s \in Seq(Image)
  PROVE  Len(s) \in Nat /\ (s = <<>> <=> Len(s) = 0)
  BY EmptySeq, LenProperties

LEMMA LastOfPath ==
  ASSUME NEW s \in Seq(Image), s # <<>>
  PROVE  /\ Len(s) \in Nat \ {0}
         /\ Last(s) = s[Len(s)] /\ Last(s) \in Image /\ Last(s) \in Range(s)
         /\ Front(s) \in Seq(Image) /\ Len(Front(s)) = Len(s) - 1
         /\ \A n \in 1..(Len(s) - 1) : Front(s)[n] = s[n]
<1>1. Len(s) \in Nat \ {0} /\ DOMAIN s = 1..Len(s) /\ \A n \in 1..Len(s) : s[n] \in Image
  BY EmptySeq, LenProperties, ElementOfSeq
<1>2. Last(s) = s[Len(s)] /\ Last(s) \in Image /\ Last(s) \in Range(s)
  BY <1>1 DEF Last, Range
<1>3. /\ Front(s) \in Seq(Image) /\ Len(Front(s)) = Len(s) - 1
      /\ \A n \in 1..(Len(s) - 1) : Front(s)[n] = s[n]
  <2>1. 1 \in Int /\ Len(s) - 1 \in Int /\ \A n \in 1..(Len(s) - 1) : s[n] \in Image
    BY <1>1
  <2>2. /\ SubSeq(s, 1, Len(s) - 1) \in Seq(Image)
        /\ Len(SubSeq(s, 1, Len(s) - 1)) = IF 1 <= Len(s) - 1 THEN (Len(s) - 1) - 1 + 1 ELSE 0
        /\ \A n \in 1..((Len(s) - 1) - 1 + 1) : SubSeq(s, 1, Len(s) - 1)[n] = s[1 + n - 1]
    BY <2>1, SubSeqProperties
  <2> QED
    BY <1>1, <2>2 DEF Front
<1> QED
  BY <1>1, <1>2, <1>3

LEMMA AppendToPath ==
  ASSUME NEW s \in Seq(Image), NEW i \in Image
  PROVE  /\ Append(s, i) \in Seq(Image) /\ Append(s, i) # <<>>
         /\ Len(Append(s, i)) = Len(s) + 1 /\ Last(Append(s, i)) = i
         /\ Append(s, i)[Len(s) + 1] = i
         /\ \A n \in 1..Len(s) : Append(s, i)[n] = s[n]
  BY AppendProperties, LenProperties DEF Last

LEMMA PathOfOne ==
  ASSUME NEW i \in Image
  PROVE  /\ <<i>> \in Seq(Image) /\ <<i>> # <<>> /\ Len(<<i>>) = 1
         /\ <<i>>[1] = i /\ Last(<<i>>) = i
  BY DEF Last

LEMMA ImagesOfPath ==
  ASSUME NEW s \in Seq(Image)
  PROVE  /\ s # <<>> => Range(s) = Range(Front(s)) \union {Last(s)}
         /\ s = <<>> => Range(s) = {}
         /\ \A i \in Image : /\ Range(Append(s, i)) = Range(s) \union {i}
                             /\ Front(Append(s, i)) = s /\ Range(Front(<<i>>)) = {}
         /\ \A x : x \in Range(s) <=> \E n \in 1..Len(s) : s[n] = x
<1>1. /\ Len(s) \in Nat /\ DOMAIN s = 1..Len(s)
      /\ \A x : x \in Range(s) <=> \E n \in 1..Len(s) : s[n] = x
  BY LenProperties DEF Range
<1>2. ASSUME s # <<>> PROVE Range(s) = Range(Front(s)) \union {Last(s)}
  <2>1. /\ Len(s) \in Nat \ {0} /\ Last(s) = s[Len(s)]
        /\ Front(s) \in Seq(Image) /\ Len(Front(s)) = Len(s) - 1
        /\ \A n \in 1..(Len(s) - 1) : Front(s)[n] = s[n]
    BY <1>2, LastOfPath
  <2>2. \A x : x \in Range(Front(s)) <=> \E n \in 1..(Len(s) - 1) : s[n] = x
    BY <2>1, LenProperties DEF Range
  <2>3. \A n : n \in 1..Len(s) <=> n \in 1..(Len(s) - 1) \/ n = Len(s)
    BY <2>1
  <2> QED
    BY <1>1, <2>1, <2>2, <2>3
<1>3. s = <<>> => Range(s) = {}
  BY <1>1, EmptySeq
<1>4. ASSUME NEW i \in Image
      PROVE  /\ Range(Append(s, i)) = Range(s) \union {i}
             /\ Front(Append(s, i)) = s /\ Range(Front(<<i>>)) = {}
  <2>1. /\ Append(s, i) \in Seq(Image) /\ Append(s, i) # <<>> /\ Len(Append(s, i)) = Len(s) + 1
        /\ Append(s, i)[Len(s) + 1] = i /\ \A n \in 1..Len(s) : Append(s, i)[n] = s[n]
    BY AppendToPath
  <2>2. /\ Front(Append(s, i)) \in Seq(Image) /\ Len(Front(Append(s, i))) = Len(s)
        /\ \A n \in 1..Len(s) : Front(Append(s, i))[n] = s[n]
    <3> DEFINE a == Append(s, i)
    <3>1. a \in Seq(Image) /\ a # <<>> /\ Len(a) = Len(s) + 1 /\ \A n \in 1..Len(s) : a[n] = s[n]
      BY <2>1
    <3> HIDE DEF a
    <3>2. /\ Front(a) \in Seq(Image) /\ Len(Front(a)) = Len(a) - 1
          /\ \A n \in 1..(Len(a) - 1) : Front(a)[n] = a[n]
      BY <3>1, LastOfPath
    <3>3. Len(a) - 1 = Len(s)
      BY <1>1, <3>1
    <3> QED
      BY <3>1, <3>2, <3>3 DEF a
  <2>3. Front(Append(s, i)) = s
    BY <2>2, SeqEqual
  <2>4. Range(Append(s, i)) = Range(s) \union {i}
    <3>1. \A n : n \in 1..(Len(s) + 1) <=> n \in 1..Len(s) \/ n = Len(s) + 1
      BY <1>1
    <3>2. \A x : x \in Range(Append(s, i)) <=> \E n \in 1..(Len(s) + 1) : Append(s, i)[n] = x
      BY <2>1, LenProperties DEF Range
    <3> QED
      BY <1>1, <2>1, <3>1, <3>2
  <2>5. Range(Front(<<i>>)) = {}
    <3>1. <<i>> \in Seq(Image) /\ <<i>> # <<>> /\ Len(<<i>>) = 1
      BY PathOfOne
    <3>2. Front(<<i>>) \in Seq(Image) /\ Len(Front(<<i>>)) = 0
      <4> DEFINE a == <<i>>
      <4>1. a \in Seq(Image) /\ a # <<>> /\ Len(a) = 1
        BY <3>1
      <4> HIDE DEF a
      <4>2. Front(a) \in Seq(Image) /\ Len(Front(a)) = Len(a) - 1
        BY <4>1, LastOfPath
      <4> QED
        BY <4>1, <4>2 DEF a
    <3>3. DOMAIN Front(<<i>>) = 1..0
      BY <3>2, LenProperties
    <3> QED
      BY <3>3 DEF Range
  <2> QED
    BY <2>3, <2>4, <2>5
<1> QED
  BY <1>1, <1>2, <1>3, <1>4

(* A call is for the parent of the image the call around it is for.        *)
LEMMA Caller ==
  ASSUME TypeOK, NEW j \in Job, PathInv(j), Len(path[j]) > 1
  PROVE  /\ Front(path[j]) # <<>>
         /\ Last(path[j]) = Parent[Last(Front(path[j]))]
<1>1. path[j] \in Seq(Image) /\ path[j] # <<>>
  BY EmptySeq DEF TypeOK
<1>2. Len(path[j]) \in Nat /\ Front(path[j]) \in Seq(Image) /\ Len(Front(path[j])) = Len(path[j]) - 1
  BY <1>1, LastOfPath
<1>3. Last(Front(path[j])) = path[j][Len(path[j]) - 1] /\ Front(path[j]) # <<>>
  <2>1. Front(path[j]) # <<>>
    BY <1>2, EmptySeq
  <2>2. Last(Front(path[j])) = Front(path[j])[Len(path[j]) - 1]
    BY <1>2, <2>1, LastOfPath
  <2>3. Len(path[j]) - 1 \in 1..(Len(path[j]) - 1)
    BY <1>2
  <2>4. Front(path[j])[Len(path[j]) - 1] = path[j][Len(path[j]) - 1]
    BY <1>1, <2>3, LastOfPath
  <2> QED
    BY <2>1, <2>2, <2>4
<1>4. path[j][(Len(path[j]) - 1) + 1] = Parent[path[j][Len(path[j]) - 1]]
  BY <1>2 DEF PathInv
<1> QED
  BY <1>1, <1>2, <1>3, <1>4, LastOfPath

------------------------------------------------------------------------------
(* A step is a step of one task; where the others stand, what they hold    *)
(* and what is theirs does not change.                                     *)
Step(j) == JobNext(j)

(* What all the actions of a task leave of the others.                     *)
Others(j) ==
    /\ backend' = backend
    /\ pc' = [pc EXCEPT ![j] = pc'[j]] /\ place' = [place EXCEPT ![j] = place'[j]]
    /\ path' = [path EXCEPT ![j] = path'[j]] /\ jobHost' = [jobHost EXCEPT ![j] = jobHost'[j]]
    /\ jobBridge' = [jobBridge EXCEPT ![j] = jobBridge'[j]] /\ br' = [br EXCEPT ![j] = br'[j]]
    /\ left' = [left EXCEPT ![j] = left'[j]]

LEMMA OthersStand ==
  ASSUME TypeOK, NEW j \in Job, Step(j)
  PROVE  Others(j)
<1> USE DEF Others, TypeOK, setting, images, bridgeVars, machineVars, Goto
<1>1. CASE HostNext(j)
  BY <1>1 DEF HostNext, Call, Choose, OnHost, ChooseRaises, Raise
<1>2. CASE BridgeNext(j)
  BY <1>2 DEF BridgeNext, ListBridges, AddBridge, BridgeRaises, Raise
<1>3. CASE ImageNext(j)
  BY <1>3 DEF ImageNext, Enter, Inside, Finds, Misses, Make, MakeEnds, MakeRaises, Returns, Raise
<1>4. CASE MachineNext(j)
  BY <1>4 DEF MachineNext, Clone, CloneRaises, Booted, BootRaises, Raise
<1>5. CASE CleanupNext(j)
  BY <1>5 DEF CleanupNext, Cleanup, DestroyRaises, CleanupEnds, Destroy, Over
<1> QED
  BY <1>1, <1>2, <1>3, <1>4, <1>5 DEF Step, JobNext

(* The machines a task has got, and the one it wants next.                 *)
LEMMA GotMachines ==
  ASSUME TypeOK, NEW j \in Job
  PROVE  /\ Cardinality(Got(j)) \in Nat
         /\ Cardinality(Got(j)) < NumVms[j] => New(j) \in Machine
         /\ New(j)[1] = j
<1>1. NumVms[j] \in Nat
  BY VmHostsAssumption
<1>2. Got(j) \subseteq {j} \X (1..NumVms[j])
  BY DEF Got, Machine, TypeOK
<1>3. IsFiniteSet({j} \X (1..NumVms[j]))
  <2>1. IsFiniteSet({j})
    BY FS_Singleton
  <2>2. 1 \in Int /\ NumVms[j] \in Int
    BY <1>1
  <2>3. IsFiniteSet(1..NumVms[j])
    BY <2>2, FS_Interval
  <2> QED
    BY <2>1, <2>3, FS_Product
<1>4. Cardinality(Got(j)) \in Nat
  BY <1>2, <1>3, FS_Subset, FS_CardinalityType
<1>5. Cardinality(Got(j)) < NumVms[j] => New(j) \in {j} \X (1..NumVms[j])
  BY <1>1, <1>4 DEF New
<1> QED
  BY <1>4, <1>5 DEF New, Machine

(* The stack of a task: what a step of its own does to it.                 *)
LEMMA PathStep ==
  ASSUME TypeOK, NEW j \in Job, PathInv(j), PlaceInv(j), MachineInv(j), Step(j)
  PROVE  path'[j] \in Seq(Image) /\ PathInv(j)'
<1> USE VmHostsAssumption DEF TypeOK, At, Goto
<1>0. /\ path[j] \in Seq(Image) /\ pc[j] \in Place
      /\ backend' = backend /\ (Virsh' <=> Virsh)
  BY OthersStand DEF Others, Virsh
<1>1. UNCHANGED noted => New(j)' = New(j)
  BY DEF New, Got
<1>2. ASSUME path' = [path EXCEPT ![j] = <<VmImage[New(j)]>>], Goto(j, "enter"),
             UNCHANGED noted, Cardinality(Got(j)) < NumVms[j]
      PROVE  path'[j] \in Seq(Image) /\ PathInv(j)'
  <2>1. VmImage[New(j)] \in Image /\ New(j)' = New(j)
    BY <1>1, <1>2, GotMachines
  <2> QED
    BY <1>0, <1>2, <2>1, PathOfOne DEF PathInv
<1>3. ASSUME UNCHANGED <<path, noted>>,
             pc'[j] \notin {"enter", "make", "making"} <=> pc[j] \notin {"enter", "make", "making"}
      PROVE  path'[j] \in Seq(Image) /\ PathInv(j)'
  BY <1>0, <1>1, <1>3 DEF PathInv
<1>4. ASSUME path'[j] = <<>>, pc'[j] \notin {"enter", "make", "making"}
      PROVE  path'[j] \in Seq(Image) /\ PathInv(j)'
  BY <1>0, <1>4, EmptySeq DEF PathInv
<1>5. ASSUME Returns(j), path[j] # <<>>, UNCHANGED noted
      PROVE  path'[j] \in Seq(Image) /\ PathInv(j)'
  <2>1. /\ path'[j] = Front(path[j]) /\ path'[j] \in Seq(Image)
        /\ Len(path[j]) \in Nat \ {0} /\ Len(path'[j]) = Len(path[j]) - 1
        /\ \A n \in 1..(Len(path[j]) - 1) : path'[j][n] = path[j][n]
    BY <1>0, <1>5, LastOfPath DEF Returns
  <2>2. pc'[j] = IF Len(path[j]) = 1 THEN "clone" ELSE "make"
    BY <1>5 DEF Returns
  <2>3. path'[j] = <<>> <=> Len(path[j]) = 1
    <3>1. path'[j] = <<>> <=> Len(path'[j]) = 0
      BY <2>1, EmptyPath
    <3> QED
      BY <2>1, <3>1
  <2>4. pc'[j] \notin {"enter", "make", "making"} <=> path'[j] = <<>>
    BY <2>2, <2>3
  <2>5. path'[j] # <<>> => path'[j][1] = VmImage[New(j)']
    <3> SUFFICES ASSUME path'[j] # <<>> PROVE path'[j][1] = VmImage[New(j)']
      OBVIOUS
    <3>1. 1 \in 1..(Len(path[j]) - 1)
      BY <2>1, <2>3
    <3>2. path'[j][1] = path[j][1] /\ path[j][1] = VmImage[New(j)]
      BY <1>5, <2>1, <3>1 DEF PathInv
    <3> QED
      BY <1>1, <1>5, <3>2
  <2>6. ASSUME NEW n \in 1..(Len(path'[j]) - 1) PROVE path'[j][n + 1] = Parent[path'[j][n]]
    <3>1. \A m \in 1..(Len(path[j]) - 1) : path[j][m + 1] = Parent[path[j][m]]
      BY DEF PathInv
    <3>2. n \in 1..(Len(path[j]) - 1) /\ n + 1 \in 1..(Len(path[j]) - 1)
      BY <2>1
    <3> QED
      BY <2>1, <3>1, <3>2
  <2>7. Len(path'[j]) > 1 => Virsh'
    BY <1>0, <2>1 DEF PathInv
  <2> QED
    BY <2>1, <2>4, <2>5, <2>6, <2>7 DEF PathInv
<1>6. ASSUME NEW i \in Image, path' = [path EXCEPT ![j] = Append(@, i)], path[j] # <<>>,
             i = Parent[Last(path[j])], Virsh, UNCHANGED <<pc, noted>>
      PROVE  path'[j] \in Seq(Image) /\ PathInv(j)'
  <2>1. /\ path'[j] \in Seq(Image) /\ path'[j] # <<>> /\ Len(path'[j]) = Len(path[j]) + 1
        /\ path'[j][Len(path[j]) + 1] = i
        /\ \A n \in 1..Len(path[j]) : path'[j][n] = path[j][n]
    BY <1>0, <1>6, AppendToPath
  <2>2. Len(path[j]) \in Nat \ {0} /\ i = Parent[path[j][Len(path[j])]]
    BY <1>0, <1>6, LastOfPath
  <2>3. ASSUME NEW n \in 1..(Len(path'[j]) - 1)
        PROVE  path'[j][n + 1] = Parent[path'[j][n]]
    <3>1. \A m \in 1..(Len(path[j]) - 1) : path[j][m + 1] = Parent[path[j][m]]
      BY DEF PathInv
    <3>2. n \in 1..Len(path[j])
      BY <2>1, <2>2
    <3>3. CASE n = Len(path[j])
      BY <2>1, <2>2, <3>2, <3>3
    <3>4. CASE n # Len(path[j])
      <4>1. n \in 1..(Len(path[j]) - 1) /\ n + 1 \in 1..Len(path[j])
        BY <2>2, <3>2, <3>4
      <4> QED
        BY <2>1, <3>1, <3>2, <4>1
    <3> QED
      BY <3>3, <3>4
  <2>4. path'[j][1] = VmImage[New(j)']
    BY <1>1, <1>6, <2>1, <2>2 DEF PathInv
  <2> QED
    BY <1>0, <1>6, <2>1, <2>2, <2>3, <2>4 DEF PathInv
<1>7. CASE HostNext(j)
  <2>1. UNCHANGED noted
    BY <1>7 DEF HostNext, Call, Choose, ChooseRaises, machineVars
  <2>2. pc[j] \in {"idle", "choosing"} /\ path[j] = <<>>
    BY <1>7 DEF HostNext, Call, Choose, ChooseRaises, Wants, PathInv
  <2>3. CASE Call(j) \/ (\E h \in Host : Choose(j, h))
    <3>1. Cardinality(Got(j)) < NumVms[j]
      BY <2>3 DEF Call, Choose, Wants, MachineInv
    <3> QED
      BY <1>2, <1>3, <2>1, <2>2, <2>3, <3>1 DEF Call, Choose, OnHost
  <2>4. CASE ChooseRaises(j)
    BY <1>0, <1>4, <2>4 DEF ChooseRaises, Raise
  <2> QED
    BY <1>7, <2>3, <2>4 DEF HostNext
<1>8. CASE BridgeNext(j)
  <2>1. CASE ListBridges(j)
    BY <1>3, <2>1 DEF ListBridges, machineVars
  <2>2. CASE AddBridge(j)
    BY <1>2, <2>2 DEF AddBridge, MachineInv, machineVars
  <2>3. CASE BridgeRaises(j)
    BY <1>0, <1>4, <2>3 DEF BridgeRaises, Raise
  <2> QED
    BY <1>8, <2>1, <2>2, <2>3 DEF BridgeNext
<1>9. CASE ImageNext(j)
  <2>1. path[j] # <<>> /\ UNCHANGED noted
    BY <1>9 DEF ImageNext, Enter, Make, MakeEnds, MakeRaises, PathInv, machineVars
  <2>2. CASE Enter(j)
    <3>1. Last(path[j]) \in Image
      BY <1>0, <2>1, LastOfPath
    <3>2. CASE Finds(j, Last(path[j]))
      BY <1>5, <2>1, <3>2 DEF Finds
    <3>3. CASE Misses(j, Last(path[j]))
      <4>1. CASE Child(Last(path[j]))
        BY <1>6, <2>1, <3>1, <3>3, <4>1 DEF Misses, Child
      <4>2. CASE ~Child(Last(path[j]))
        BY <1>3, <2>1, <2>2, <3>3, <4>2 DEF Misses, Enter
      <4> QED
        BY <4>1, <4>2
    <3> QED
      BY <2>2, <3>2, <3>3 DEF Enter, Inside
  <2>3. CASE Make(j)
    BY <1>3, <2>1, <2>3 DEF Make
  <2>4. CASE MakeEnds(j)
    BY <1>5, <2>1, <2>4 DEF MakeEnds
  <2>5. CASE MakeRaises(j)
    BY <1>0, <1>4, <2>5 DEF MakeRaises, Raise
  <2> QED
    BY <1>9, <2>2, <2>3, <2>4, <2>5 DEF ImageNext
<1>10. CASE MachineNext(j)
  <2>1. pc[j] \in {"clone", "boot"}
    BY <1>10 DEF MachineNext, Clone, CanClone, CloneRaises, Booted, BootRaises
  <2>2. path[j] = <<>>
    BY <2>1 DEF PathInv
  <2> QED
    BY <1>0, <1>4, <1>10, <2>2 DEF MachineNext, Clone, CloneRaises, Booted, BootRaises, Raise
<1>11. CASE CleanupNext(j)
  <2>1. pc[j] \in {"idle", "failed", "destroy"}
    BY <1>11 DEF CleanupNext, Cleanup, DestroyRaises, CleanupEnds, Destroy
  <2>2. path[j] = <<>>
    BY <2>1 DEF PathInv
  <2> QED
    BY <1>0, <1>4, <1>11, <2>2 DEF CleanupNext, Cleanup, DestroyRaises, CleanupEnds, Destroy, Over
<1> QED
  BY <1>7, <1>8, <1>9, <1>10, <1>11 DEF Step, JobNext

(* The host of a task.                                                     *)
LEMMA PlaceStep ==
  ASSUME TypeOK, NEW j \in Job, PlaceInv(j), Step(j)
  PROVE  PlaceInv(j)'
<1> USE VmHostsAssumption DEF TypeOK, PlaceInv, At, Goto
<1>1. CASE HostNext(j)
  BY <1>1 DEF HostNext, Call, Choose, OnHost, ChooseRaises, Raise, Wants
<1>2. CASE BridgeNext(j)
  BY <1>2 DEF BridgeNext, ListBridges, AddBridge, BridgeRaises, Raise
<1>3. CASE ImageNext(j)
  BY <1>3 DEF ImageNext, Enter, Inside, Finds, Misses, Make, MakeEnds, MakeRaises, Returns, Raise
<1>4. CASE MachineNext(j)
  <2>1. CASE Clone(j) \/ Booted(j)
    BY <2>1 DEF Clone, CanClone, Booted
  <2>2. CASE CloneRaises(j)
    BY <2>2 DEF CloneRaises, Raise
  <2>3. CASE BootRaises(j)
    BY <2>3 DEF BootRaises, Raise
  <2> QED
    BY <1>4, <2>1, <2>2, <2>3 DEF MachineNext
<1>5. CASE CleanupNext(j)
  BY <1>5 DEF CleanupNext, Cleanup, DestroyRaises, CleanupEnds, Destroy, Over
<1> QED
  BY <1>1, <1>2, <1>3, <1>4, <1>5 DEF Step, JobNext

------------------------------------------------------------------------------
(* Type correctness, and the machines of the others.                       *)
LEMMA TypeStep ==
  ASSUME IInv, NEW j \in Job, Step(j)
  PROVE  TypeOK'
<1>0. TypeOK /\ PathInv(j) /\ PlaceInv(j) /\ MachineInv(j)
  BY DEF IInv, MachinesInv
<1>1. pc'[j] \in Place /\ place'[j] \in Host \union {NoHost} /\ jobHost'[j] \in Host \union {NoHost}
  <2> USE VmHostsAssumption, <1>0 DEF TypeOK, Goto, Place
  <2>1. CASE HostNext(j)
    BY <2>1 DEF HostNext, Call, Choose, OnHost, ChooseRaises, Raise
  <2>2. CASE BridgeNext(j)
    BY <2>2 DEF BridgeNext, ListBridges, AddBridge, BridgeRaises, Raise
  <2>3. CASE ImageNext(j)
    BY <2>3 DEF ImageNext, Enter, Inside, Finds, Misses, Make, MakeEnds, MakeRaises, Returns, Raise
  <2>4. CASE MachineNext(j)
    BY <2>4 DEF MachineNext, Clone, CloneRaises, Booted, BootRaises, Raise
  <2>5. CASE CleanupNext(j)
    BY <2>5 DEF CleanupNext, Cleanup, DestroyRaises, CleanupEnds, Destroy, Over
  <2> QED
    BY <2>1, <2>2, <2>3, <2>4, <2>5 DEF Step, JobNext
<1>2. /\ bridges' \in [Host -> Nat]
      /\ jobBridge'[j] \in SUBSET Nat /\ br'[j] \in Nat
  <2> USE VmHostsAssumption, <1>0 DEF TypeOK, Goto, bridgeVars, PlaceInv, At
  <2>1. CASE HostNext(j)
    BY <2>1 DEF HostNext, Call, Choose, OnHost, ChooseRaises, Raise
  <2>2. CASE BridgeNext(j)
    <3>1. CASE ListBridges(j)
      BY <3>1 DEF ListBridges
    <3>2. CASE AddBridge(j)
      BY <3>2 DEF AddBridge
    <3>3. CASE BridgeRaises(j)
      <4>1. [bridges EXCEPT ![place[j]] = @ + 1] \in [Host -> Nat]
        BY <3>3 DEF BridgeRaises
      <4>2. bridges' \in {bridges, [bridges EXCEPT ![place[j]] = @ + 1]} /\ UNCHANGED jobBridge
            /\ br' = [br EXCEPT ![j] = 0]
        BY <3>3 DEF BridgeRaises
      <4> QED
        BY <4>1, <4>2
    <3> QED
      BY <2>2, <3>1, <3>2, <3>3 DEF BridgeNext
  <2>3. CASE ImageNext(j)
    BY <2>3 DEF ImageNext, Enter, Inside, Finds, Misses, Make, MakeEnds, MakeRaises, Returns, Raise
  <2>4. CASE MachineNext(j)
    BY <2>4 DEF MachineNext, Clone, CloneRaises, Booted, BootRaises, Raise
  <2>5. CASE CleanupNext(j)
    BY <2>5 DEF CleanupNext, Cleanup, DestroyRaises, CleanupEnds, Destroy, Over
  <2> QED
    BY <2>1, <2>2, <2>3, <2>4, <2>5 DEF Step, JobNext
<1>3. disk' \in [Host -> [Image -> Disk]]
  <2> USE VmHostsAssumption, <1>0 DEF TypeOK, Disk, images
  <2>1. CASE HostNext(j)
    BY <2>1 DEF HostNext, Call, Choose, OnHost, ChooseRaises, Raise
  <2>2. CASE BridgeNext(j)
    BY <2>2 DEF BridgeNext, ListBridges, AddBridge, BridgeRaises, Raise
  <2>3. CASE ImageNext(j)
    <3>1. ASSUME NEW h \in Host, NEW i \in Image, NEW d \in Disk
          PROVE  [disk EXCEPT ![h][i] = d] \in [Host -> [Image -> Disk]]
      OBVIOUS
    <3>2. At(j, "make") \/ At(j, "making") => place[j] \in Host /\ Last(path[j]) \in Image
      BY LastOfPath DEF PathInv, PlaceInv, At
    <3>3. CASE Enter(j)
      BY <3>3 DEF Enter
    <3>4. CASE Make(j)
      BY <3>1, <3>2, <3>4 DEF Make
    <3>5. CASE MakeEnds(j)
      BY <3>1, <3>2, <3>5 DEF MakeEnds
    <3>6. CASE MakeRaises(j)
      <4>1. place[j] \in Host /\ Last(path[j]) \in Image
        BY <3>2, <3>6 DEF MakeRaises
      <4>2. PICK d \in Remains(j, place[j], Last(path[j])) :
                disk' = [disk EXCEPT ![place[j]][Last(path[j])] = d]
        BY <3>6 DEF MakeRaises
      <4>3. d \in Disk
        <5>1. disk[place[j]][Last(path[j])] \in Disk
          BY <4>1
        <5>2. d \in {disk[place[j]][Last(path[j])], "absent", "partial", "built"}
          BY <4>2 DEF Remains
        <5> QED
          BY <5>1, <5>2
      <4> QED
        BY <3>1, <4>1, <4>2, <4>3
    <3> QED
      BY <2>3, <3>3, <3>4, <3>5, <3>6 DEF ImageNext
  <2>4. CASE MachineNext(j)
    BY <2>4 DEF MachineNext, Clone, CloneRaises, Booted, BootRaises, Raise
  <2>5. CASE CleanupNext(j)
    BY <2>5 DEF CleanupNext, Cleanup, DestroyRaises, CleanupEnds, Destroy, Over
  <2> QED
    BY <2>1, <2>2, <2>3, <2>4, <2>5 DEF Step, JobNext
<1>4. /\ machines' \in [Host -> SUBSET Machine] /\ noted' \in [Host -> SUBSET Machine]
      /\ left'[j] \in SUBSET Machine /\ lost' \subseteq Machine
  <2> USE VmHostsAssumption, <1>0 DEF TypeOK, machineVars
  <2>1. CASE HostNext(j)
    BY <2>1 DEF HostNext, Call, Choose, OnHost, ChooseRaises, Raise
  <2>2. CASE BridgeNext(j)
    BY <2>2 DEF BridgeNext, ListBridges, AddBridge, BridgeRaises, Raise
  <2>3. CASE ImageNext(j)
    BY <2>3 DEF ImageNext, Enter, Inside, Finds, Misses, Make, MakeEnds, MakeRaises, Returns, Raise
  <2>4. CASE MachineNext(j)
    <3>1. At(j, "clone") \/ At(j, "boot") => New(j) \in Machine
      BY GotMachines DEF MachineInv, At
    <3>2. ASSUME At(j, "clone")
          PROVE  [machines EXCEPT ![place[j]] = @ \union {New(j)}] \in [Host -> SUBSET Machine]
      BY <3>1, <3>2
    <3>3. CASE Clone(j) \/ CloneRaises(j)
      <4>1. /\ UNCHANGED machines \/ machines' = [machines EXCEPT ![place[j]] = @ \union {New(j)}]
            /\ UNCHANGED lost \/ lost' = lost \union {New(j)}
            /\ UNCHANGED <<noted, left>> /\ At(j, "clone")
        BY <3>3 DEF Clone, CloneRaises, CanClone
      <4> QED
        BY <3>1, <3>2, <4>1
    <3>4. CASE Booted(j)
      <4>1. New(j) \in Machine
        BY <3>1, <3>4 DEF Booted
      <4>2. [noted EXCEPT ![place[j]] = @ \union {New(j)}] \in [Host -> SUBSET Machine]
        BY <4>1
      <4> QED
        BY <3>4, <4>2 DEF Booted
    <3>5. CASE BootRaises(j)
      BY <3>1, <3>5 DEF BootRaises
    <3> QED
      BY <2>4, <3>3, <3>4, <3>5 DEF MachineNext
  <2>5. CASE CleanupNext(j)
    <3>1. CASE Cleanup(j)
      <4>1. UNCHANGED <<machines, lost>>
        BY <3>1 DEF Cleanup
      <4>2. CASE jobHost[j] = NoHost
        BY <3>1, <4>1, <4>2 DEF Cleanup
      <4>3. CASE jobHost[j] \in Host
        <5>1. /\ left' = [left EXCEPT ![j] = noted[jobHost[j]] \intersect Got(j)]
              /\ noted' = [noted EXCEPT ![jobHost[j]] = @ \ Got(j)]
          BY <3>1, <4>3 DEF Cleanup
        <5>2. noted[jobHost[j]] \subseteq Machine
          BY <4>3
        <5> QED
          BY <4>1, <5>1, <5>2
      <4> QED
        BY <4>2, <4>3
    <3>2. CASE DestroyRaises(j)
      <4>1. PICK v \in left[j] : machines' \in {machines, [machines EXCEPT ![place[j]] = @ \ {v}]}
        BY <3>2 DEF DestroyRaises
      <4>2. [machines EXCEPT ![place[j]] = @ \ {v}] \in [Host -> SUBSET Machine]
        OBVIOUS
      <4>3. machines' \in [Host -> SUBSET Machine]
        BY <4>1, <4>2
      <4> QED
        BY <3>2, <4>3 DEF DestroyRaises
    <3>3. CASE CleanupEnds(j)
      BY <3>3 DEF CleanupEnds
    <3>4. ASSUME NEW v \in Machine, Destroy(j, v)
          PROVE  /\ machines' \in [Host -> SUBSET Machine] /\ noted' \in [Host -> SUBSET Machine]
                 /\ left'[j] \in SUBSET Machine /\ lost' \subseteq Machine
      <4>1. /\ UNCHANGED machines \/ machines' = [machines EXCEPT ![place[j]] = @ \ {v}]
            /\ UNCHANGED lost \/ lost' = lost \union {v}
            /\ UNCHANGED noted /\ left' = [left EXCEPT ![j] = @ \ {v}]
        BY <3>4 DEF Destroy
      <4>2. [machines EXCEPT ![place[j]] = @ \ {v}] \in [Host -> SUBSET Machine]
        OBVIOUS
      <4> QED
        BY <4>1, <4>2
    <3> QED
      BY <2>5, <3>1, <3>2, <3>3, <3>4 DEF CleanupNext
  <2> QED
    BY <2>1, <2>2, <2>3, <2>4, <2>5 DEF Step, JobNext
<1>5. misread' \subseteq Host \X Image /\ UNCHANGED <<backend, tight>>
  <2> USE <1>0 DEF TypeOK, setting, images
  <2>1. CASE HostNext(j)
    BY <2>1 DEF HostNext, Call, Choose, ChooseRaises
  <2>2. CASE BridgeNext(j)
    BY <2>2 DEF BridgeNext, ListBridges, AddBridge, BridgeRaises
  <2>3. CASE ImageNext(j)
    <3>1. Enter(j) => <<place[j], Last(path[j])>> \in Host \X Image
      BY LastOfPath DEF PathInv, PlaceInv, Enter, At
    <3> QED
      BY <2>3, <3>1 DEF ImageNext, Enter, Inside, Finds, Misses, Make, MakeEnds, MakeRaises
  <2>4. CASE MachineNext(j)
    BY <2>4 DEF MachineNext, Clone, CloneRaises, Booted, BootRaises
  <2>5. CASE CleanupNext(j)
    BY <2>5 DEF CleanupNext, Cleanup, DestroyRaises, CleanupEnds, Destroy
  <2> QED
    BY <2>1, <2>2, <2>3, <2>4, <2>5 DEF Step, JobNext
<1>6. Others(j) /\ path'[j] \in Seq(Image)
  BY <1>0, OthersStand, PathStep
<1> QED
  BY <1>0, <1>1, <1>2, <1>3, <1>4, <1>5, <1>6 DEF TypeOK, Others

(* What a step of a task does to the machines: it only adds, notes and     *)
(* destroys its own.                                                       *)
LEMMA MachineEffect ==
  ASSUME IInv, NEW j \in Job, Step(j)
  PROVE  /\ \A h \in Host : \A v \in Machine : v[1] # j =>
                (v \in noted'[h] <=> v \in noted[h]) /\ (v \in machines'[h] <=> v \in machines[h])
         /\ lost \subseteq lost'
<1>0. TypeOK /\ MachineInv(j)
  BY DEF IInv, MachinesInv
<1> USE <1>0 DEF TypeOK, setting, images, bridgeVars, machineVars
<1>1. CASE HostNext(j)
  BY <1>1 DEF HostNext, Call, Choose, ChooseRaises
<1>2. CASE BridgeNext(j)
  BY <1>2 DEF BridgeNext, ListBridges, AddBridge, BridgeRaises
<1>3. CASE ImageNext(j)
  BY <1>3 DEF ImageNext, Enter, Make, MakeEnds, MakeRaises
<1>4. CASE MachineNext(j)
  <2>1. New(j)[1] = j
    BY GotMachines
  <2> HIDE DEF New
  <2>2. /\ UNCHANGED machines \/ machines' = [machines EXCEPT ![place[j]] = @ \union {New(j)}]
        /\ UNCHANGED noted \/ noted' = [noted EXCEPT ![place[j]] = @ \union {New(j)}]
        /\ lost \subseteq lost'
    BY <1>4 DEF MachineNext, Clone, CloneRaises, Booted, BootRaises
  <2>3. \A h \in Host : machines'[h] = machines[h] \/ machines'[h] = machines[h] \union {New(j)}
    BY <2>2
  <2>4. \A h \in Host : noted'[h] = noted[h] \/ noted'[h] = noted[h] \union {New(j)}
    BY <2>2
  <2>5. \A v \in Machine : v[1] # j => v \notin {New(j)}
    BY <2>1
  <2> QED
    BY <2>2, <2>3, <2>4, <2>5
<1>5. CASE CleanupNext(j)
  <2>1. \A v \in Got(j) : v[1] = j
    BY DEF Got
  <2>2. \A v \in left[j] : v[1] = j
    BY DEF MachineInv
  <2>3. CASE Cleanup(j)
    <3>1. UNCHANGED <<machines, lost>>
      BY <2>3 DEF Cleanup
    <3>2. CASE UNCHANGED noted
      BY <3>1, <3>2
    <3>3. CASE noted' = [noted EXCEPT ![jobHost[j]] = @ \ Got(j)]
      <4>1. \A h \in Host : noted'[h] = noted[h] \/ noted'[h] = noted[h] \ Got(j)
        BY <3>3
      <4> QED
        BY <2>1, <3>1, <4>1
    <3> QED
      BY <2>3, <3>2, <3>3 DEF Cleanup
  <2>4. ASSUME NEW v \in Machine, Destroy(j, v)
        PROVE  /\ \A h \in Host : \A w \in Machine : w[1] # j =>
                      (w \in noted'[h] <=> w \in noted[h]) /\ (w \in machines'[h] <=> w \in machines[h])
               /\ lost \subseteq lost'
    <3>1. /\ UNCHANGED noted /\ v \in left[j] /\ lost \subseteq lost'
          /\ UNCHANGED machines \/ machines' = [machines EXCEPT ![place[j]] = @ \ {v}]
      BY <2>4 DEF Destroy
    <3>2. \A h \in Host : machines'[h] \in {machines[h], machines[h] \ {v}}
      BY <3>1
    <3> QED
      BY <2>2, <3>1, <3>2
  <2>5. CASE DestroyRaises(j)
    <3>1. PICK v \in left[j] : machines' \in {machines, [machines EXCEPT ![place[j]] = @ \ {v}]}
      BY <2>5 DEF DestroyRaises
    <3>2. UNCHANGED noted /\ lost \subseteq lost'
      BY <2>5 DEF DestroyRaises
    <3>3. \A h \in Host : machines'[h] \in {machines[h], machines[h] \ {v}}
      BY <3>1
    <3> QED
      BY <2>2, <3>1, <3>2, <3>3
  <2>6. CASE CleanupEnds(j)
    BY <2>6 DEF CleanupEnds
  <2> QED
    BY <1>5, <2>3, <2>4, <2>5, <2>6 DEF CleanupNext
<1> QED
  BY <1>1, <1>2, <1>3, <1>4, <1>5 DEF Step, JobNext

LEMMA OthersGot ==
  ASSUME IInv, NEW j \in Job, Step(j), NEW k \in Job, k # j
  PROVE  Got(k)' = Got(k) /\ New(k)' = New(k)
<1>1. TypeOK /\ TypeOK'
  BY TypeStep DEF IInv
<1>2. \A h \in Host : \A v \in Machine : v[1] = k => (v \in noted'[h] <=> v \in noted[h])
  BY MachineEffect
<1>3. Got(k)' = Got(k)
  BY <1>1, <1>2 DEF Got, TypeOK
<1> QED
  BY <1>3 DEF New

------------------------------------------------------------------------------
(* The images.                                                             *)

(* What the images of a task are, and that it holds the locks of all that  *)
(* it looked for.                                                          *)
LEMMA HeldImages ==
  ASSUME IInv, NEW j \in Job
  PROVE  /\ path[j] \in Seq(Image)
         /\ pc[j] \in {"enter", "make", "making"} <=> path[j] # <<>>
         /\ path[j] # <<>> => /\ place[j] \in Host /\ Last(path[j]) \in Image
                              /\ Range(path[j]) = Range(Front(path[j])) \union {Last(path[j])}
         /\ path[j] = <<>> => Held(j) = {}
         /\ At(j, "enter") => Held(j) = Range(Front(path[j])) /\ Sought(j) = Held(j)
         /\ ~At(j, "enter") => Held(j) = Range(path[j])
         /\ At(j, "make") => Sought(j) = Held(j)
         /\ At(j, "making") => Sought(j) = Range(Front(path[j]))
<1>1. TypeOK /\ PathInv(j) /\ PlaceInv(j)
  BY DEF IInv
<1>2. path[j] \in Seq(Image) /\ (pc[j] \in {"enter", "make", "making"} <=> path[j] # <<>>)
  BY <1>1 DEF TypeOK, PathInv
<1>3. path[j] # <<>> => /\ place[j] \in Host /\ Last(path[j]) \in Image
                        /\ Range(path[j]) = Range(Front(path[j])) \union {Last(path[j])}
  BY <1>1, <1>2, LastOfPath, ImagesOfPath DEF PlaceInv
<1>4. path[j] = <<>> => Held(j) = {}
  BY <1>2, ImagesOfPath DEF Held, At
<1> QED
  BY <1>2, <1>3, <1>4 DEF Held, Sought, At

(* The steps of a task on its stack.                                       *)
LEMMA PathMoves ==
  ASSUME IInv, NEW j \in Job, Step(j)
  PROVE  \/ path'[j] = <<>>
         \/ \E i \in Image : path'[j] = <<i>> /\ pc'[j] = "enter"
         \/ /\ UNCHANGED <<path, place, disk>> /\ Enter(j) /\ Misses(j, Last(path[j]))
            /\ pc'[j] = "make" /\ ~Child(Last(path[j]))
         \/ /\ path'[j] = Append(path[j], Parent[Last(path[j])]) /\ Enter(j) /\ pc'[j] = "enter"
            /\ UNCHANGED <<place, disk>> /\ Misses(j, Last(path[j])) /\ Parent[Last(path[j])] \in Image
         \/ /\ Enter(j) \/ MakeEnds(j)
            /\ path'[j] = Front(path[j]) /\ pc'[j] = "make" /\ Len(path[j]) > 1
            /\ Returns(j) /\ UNCHANGED place
         \/ Make(j) /\ UNCHANGED <<path, place>> /\ pc'[j] = "making"
<1>1. TypeOK /\ PathInv(j) /\ PlaceInv(j) /\ MachineInv(j)
  BY DEF IInv, MachinesInv
<1> USE VmHostsAssumption, <1>1 DEF TypeOK, At, Goto
<1>2. path[j] \in Seq(Image) /\ (pc[j] \in {"enter", "make", "making"} <=> path[j] # <<>>)
  BY DEF PathInv
<1>3. CASE HostNext(j)
  <2>1. path[j] = <<>>
    BY <1>2, <1>3 DEF HostNext, Call, Choose, ChooseRaises, Wants
  <2>2. CASE Call(j) \/ (\E h \in Host : Choose(j, h))
    <3>1. VmImage[New(j)] \in Image
      BY <2>2, GotMachines DEF Call, Choose, Wants, MachineInv
    <3> QED
      BY <2>1, <2>2, <3>1 DEF Call, Choose, OnHost
  <2>3. CASE ChooseRaises(j)
    BY <2>3 DEF ChooseRaises, Raise
  <2> QED
    BY <1>3, <2>2, <2>3 DEF HostNext
<1>4. CASE BridgeNext(j)
  <2>1. path[j] = <<>>
    BY <1>2, <1>4 DEF BridgeNext, ListBridges, AddBridge, BridgeRaises
  <2>2. CASE ListBridges(j)
    BY <2>1, <2>2 DEF ListBridges
  <2>3. CASE AddBridge(j)
    <3>1. VmImage[New(j)] \in Image
      BY <2>3, GotMachines DEF AddBridge, MachineInv
    <3> QED
      BY <2>3, <3>1 DEF AddBridge
  <2>4. CASE BridgeRaises(j)
    BY <2>4 DEF BridgeRaises, Raise
  <2> QED
    BY <1>4, <2>2, <2>3, <2>4 DEF BridgeNext
<1>5. ASSUME Returns(j), Enter(j) \/ MakeEnds(j), UNCHANGED place
      PROVE  \/ path'[j] = <<>>
             \/ /\ path'[j] = Front(path[j]) /\ pc'[j] = "make" /\ Len(path[j]) > 1
                /\ Returns(j) /\ UNCHANGED place
  <2>1. path[j] # <<>>
    BY <1>2, <1>5 DEF Enter, MakeEnds
  <2>2. Len(path[j]) \in Nat \ {0} /\ Front(path[j]) \in Seq(Image) /\ Len(Front(path[j])) = Len(path[j]) - 1
    BY <1>2, <2>1, LastOfPath
  <2>3. path'[j] = Front(path[j]) /\ pc'[j] = IF Len(path[j]) = 1 THEN "clone" ELSE "make"
    BY <1>5 DEF Returns
  <2>4. CASE Len(path[j]) = 1
    BY <2>2, <2>3, <2>4, EmptyPath
  <2>5. CASE Len(path[j]) # 1
    BY <1>5, <2>2, <2>3, <2>5
  <2> QED
    BY <2>4, <2>5
<1>6. CASE ImageNext(j)
  <2>1. path[j] # <<>>
    BY <1>2, <1>6 DEF ImageNext, Enter, Make, MakeEnds, MakeRaises
  <2>2. CASE Enter(j)
    <3>1. UNCHANGED <<place, disk>> /\ pc[j] = "enter"
      BY <2>2 DEF Enter
    <3>2. CASE Finds(j, Last(path[j]))
      BY <1>5, <2>2, <3>1, <3>2 DEF Finds
    <3>3. CASE Misses(j, Last(path[j]))
      <4>1. CASE Child(Last(path[j]))
        <5>1. Parent[Last(path[j])] \in Image
          BY <1>2, <2>1, <4>1, LastOfPath DEF Child
        <5>2. path'[j] = Append(path[j], Parent[Last(path[j])]) /\ pc'[j] = "enter"
          BY <3>1, <3>3, <4>1 DEF Misses
        <5> QED
          BY <2>2, <3>1, <3>3, <5>1, <5>2
      <4>2. CASE ~Child(Last(path[j]))
        BY <2>2, <3>1, <3>3, <4>2 DEF Misses
      <4> QED
        BY <4>1, <4>2
    <3> QED
      BY <2>2, <3>2, <3>3 DEF Enter, Inside
  <2>3. CASE Make(j)
    BY <2>3 DEF Make
  <2>4. CASE MakeEnds(j)
    BY <1>5, <2>4 DEF MakeEnds
  <2>5. CASE MakeRaises(j)
    BY <2>5 DEF MakeRaises, Raise
  <2> QED
    BY <1>6, <2>2, <2>3, <2>4, <2>5 DEF ImageNext
<1>7. CASE MachineNext(j)
  <2>1. pc[j] \in {"clone", "boot"}
    BY <1>7 DEF MachineNext, Clone, CanClone, CloneRaises, Booted, BootRaises
  <2>2. path[j] = <<>>
    BY <1>2, <2>1
  <2> QED
    BY <1>7, <2>2 DEF MachineNext, Clone, CloneRaises, Booted, BootRaises, Raise
<1>8. CASE CleanupNext(j)
  <2>1. pc[j] \in {"idle", "failed", "destroy"}
    BY <1>8 DEF CleanupNext, Cleanup, DestroyRaises, CleanupEnds, Destroy
  <2>2. path[j] = <<>>
    BY <1>2, <2>1
  <2> QED
    BY <1>8, <2>2 DEF CleanupNext, Cleanup, DestroyRaises, CleanupEnds, Destroy, Over
<1> QED
  BY <1>3, <1>4, <1>6, <1>7, <1>8 DEF Step, JobNext

(* A lock is taken only by Enter, which waits until nobody holds it.       *)
LEMMA HeldMoves ==
  ASSUME IInv, NEW j \in Job, Step(j)
  PROVE  \/ Held(j)' = {}
         \/ Held(j)' \subseteq Held(j) /\ place'[j] = place[j]
         \/ /\ Held(j)' \subseteq Held(j) \union {Last(path[j])} /\ place'[j] = place[j]
            /\ Enter(j)
<1>1. TypeOK /\ TypeOK' /\ path'[j] \in Seq(Image)
  BY TypeStep DEF IInv, TypeOK
<1>2. CASE path'[j] = <<>>
  <2>1. PathInv(j)'
    BY PathStep DEF IInv, MachinesInv
  <2>2. pc'[j] # "enter"
    BY <1>2, <2>1 DEF PathInv
  <2> QED
    BY <1>1, <1>2, <2>2, ImagesOfPath DEF Held, At
<1>3. CASE \E i \in Image : path'[j] = <<i>> /\ pc'[j] = "enter"
  BY <1>1, <1>3, ImagesOfPath DEF Held, At
<1>4. CASE /\ UNCHANGED <<path, place, disk>> /\ Enter(j) /\ pc'[j] = "make"
  <2>1. path[j] # <<>> /\ Held(j) = Range(Front(path[j]))
        /\ Range(path[j]) = Range(Front(path[j])) \union {Last(path[j])}
    BY <1>4, HeldImages DEF Enter, At
  <2>2. Held(j)' = Range(path[j])
    BY <1>4 DEF Held, At
  <2> QED
    BY <1>4, <2>1, <2>2
<1>5. CASE /\ path'[j] = Append(path[j], Parent[Last(path[j])]) /\ Enter(j) /\ pc'[j] = "enter"
           /\ UNCHANGED place /\ Parent[Last(path[j])] \in Image
  <2>1. path[j] \in Seq(Image) /\ Held(j) = Range(Front(path[j]))
        /\ Range(path[j]) = Range(Front(path[j])) \union {Last(path[j])}
    BY <1>5, HeldImages DEF Enter, At
  <2>2. Front(Append(path[j], Parent[Last(path[j])])) = path[j]
    BY <1>5, <2>1, ImagesOfPath
  <2>3. Held(j)' = Range(path[j])
    BY <1>5, <2>2 DEF Held, At
  <2> QED
    BY <1>5, <2>1, <2>3
<1>6. CASE /\ Enter(j) \/ MakeEnds(j)
           /\ path'[j] = Front(path[j]) /\ pc'[j] = "make" /\ UNCHANGED place
  <2>1. path[j] # <<>> /\ Range(Front(path[j])) \subseteq Held(j)
    BY <1>6, HeldImages DEF Enter, MakeEnds, At
  <2>2. Held(j)' = Range(Front(path[j]))
    BY <1>6 DEF Held, At
  <2> QED
    BY <1>6, <2>1, <2>2
<1>7. CASE Make(j) /\ UNCHANGED <<path, place>> /\ pc'[j] = "making"
  BY <1>7 DEF Held, Make, At
<1> QED
  BY <1>2, <1>3, <1>4, <1>5, <1>6, <1>7, PathMoves

(* Only its builder changes what a host has under the name of an image,    *)
(* and only who has looked for it in vain becomes its builder; what exist  *)
(* has erred about stays known.                                            *)
LEMMA DiskStep ==
  ASSUME IInv, NEW j \in Job, Step(j)
  PROVE  /\ \A h \in Host, i \in Image : disk'[h][i] # disk[h][i] =>
                place[j] = h /\ path[j] # <<>> /\ Last(path[j]) = i /\ pc[j] \in {"make", "making"}
         /\ misread \subseteq misread' /\ backend' = backend
         /\ pc'[j] = "making" => Make(j)
         /\ pc'[j] \in {"make", "clone"} => Enter(j) \/ MakeEnds(j)
<1>1. TypeOK /\ PlaceInv(j) /\ backend' = backend
  BY OthersStand DEF IInv, Others
<1> USE VmHostsAssumption, <1>1 DEF TypeOK, At, Goto, images
<1>2. CASE HostNext(j)
  BY <1>2 DEF HostNext, Call, Choose, OnHost, ChooseRaises, Raise
<1>3. CASE BridgeNext(j)
  BY <1>3 DEF BridgeNext, ListBridges, AddBridge, BridgeRaises, Raise
<1>4. CASE ImageNext(j)
  <2>1. path[j] # <<>> /\ Last(path[j]) \in Image /\ place[j] \in Host
    BY <1>4, HeldImages DEF ImageNext, Enter, Make, MakeEnds, MakeRaises
  <2>2. CASE Enter(j)
    <3>1. UNCHANGED disk /\ misread \subseteq misread' /\ pc'[j] # "making"
      BY <2>2 DEF Enter, Inside, Finds, Misses, Returns
    <3> QED
      BY <2>2, <3>1
  <2>3. CASE Make(j)
    <3>1. disk' = [disk EXCEPT ![place[j]][Last(path[j])] = "partial"] /\ UNCHANGED misread
          /\ pc'[j] = "making" /\ pc[j] = "make"
      BY <2>3 DEF Make
    <3> QED
      BY <2>1, <2>3, <3>1
  <2>4. CASE MakeEnds(j)
    <3>1. disk' = [disk EXCEPT ![place[j]][Last(path[j])] = "built"] /\ UNCHANGED misread
          /\ pc'[j] # "making" /\ pc[j] = "making"
      BY <2>4 DEF MakeEnds, Returns
    <3> QED
      BY <2>1, <2>4, <3>1
  <2>5. CASE MakeRaises(j)
    <3>1. PICK d : disk' = [disk EXCEPT ![place[j]][Last(path[j])] = d]
      BY <2>5 DEF MakeRaises
    <3>2. UNCHANGED misread /\ pc'[j] = "failed" /\ pc[j] \in {"make", "making"}
      BY <2>5 DEF MakeRaises, Raise
    <3> QED
      BY <2>1, <3>1, <3>2
  <2> QED
    BY <1>4, <2>2, <2>3, <2>4, <2>5 DEF ImageNext
<1>5. CASE MachineNext(j)
  <2>1. UNCHANGED images /\ pc'[j] \notin {"make", "making", "clone"}
    BY <1>5 DEF MachineNext, Clone, CloneRaises, Booted, BootRaises, Raise
  <2> QED
    BY <2>1
<1>6. CASE CleanupNext(j)
  <2>1. UNCHANGED images
    BY <1>6 DEF CleanupNext, Cleanup, DestroyRaises, CleanupEnds, Destroy
  <2>2. pc'[j] \notin {"make", "making", "clone"}
    BY <1>6 DEF CleanupNext, Cleanup, DestroyRaises, CleanupEnds, Destroy, Over
  <2> QED
    BY <2>1, <2>2
<1> QED
  BY <1>2, <1>3, <1>4, <1>5, <1>6 DEF Step, JobNext

(* What is built stays built.                                              *)
LEMMA BuiltStays ==
  ASSUME IInv, NEW j \in Job, Step(j), NEW h \in Host, NEW i \in Image, Built(h, i)
  PROVE  Built(h, i)'
<1>1. TypeOK /\ MissInv(j)
  BY DEF IInv, ImagesInv
<1>2. CASE <<h, i>> \in misread
  BY <1>2, DiskStep DEF Built
<1>3. CASE <<h, i>> \notin misread
  <2>1. There(h, i) /\ Making(h, i) = {}
    BY <1>3 DEF Built
  <2>2. ASSUME place[j] = h, path[j] # <<>>, Last(path[j]) = i, At(j, "make")
        PROVE  FALSE
    <3>1. i \in Sought(j)
      BY <2>2, HeldImages DEF At
    <3> QED
      BY <1>1, <1>3, <2>1, <2>2, <3>1 DEF MissInv
  <2>3. disk'[h][i] = disk[h][i]
    <3> SUFFICES ASSUME disk'[h][i] # disk[h][i] PROVE FALSE
      OBVIOUS
    <3>1. place[j] = h /\ path[j] # <<>> /\ Last(path[j]) = i /\ pc[j] \in {"make", "making"}
      BY DiskStep
    <3> QED
      BY <2>1, <2>2, <3>1 DEF Making, At
  <2>4. ASSUME NEW k \in Job, pc'[k] = "making", place'[k] = h, Last(path'[k]) = i PROVE FALSE
    <3>1. CASE k = j
      <4>1. Make(j)
        BY <2>4, <3>1, DiskStep
      <4>2. At(j, "make") /\ path[j] # <<>> /\ place[j] = h /\ Last(path[j]) = i
        BY <2>4, <3>1, <4>1, HeldImages DEF Make, At
      <4> QED
        BY <2>2, <4>2
    <3>2. CASE k # j
      <4>1. pc'[k] = pc[k] /\ place'[k] = place[k] /\ path'[k] = path[k]
        BY <1>1, <3>2, OthersStand DEF Others, TypeOK
      <4> QED
        BY <2>1, <2>4, <4>1 DEF Making, At
    <3> QED
      BY <3>1, <3>2
  <2>5. Making(h, i)' = {}
    BY <2>4 DEF Making, At
  <2>6. There(h, i)'
    BY <2>1, <2>3, DiskStep DEF There
  <2> QED
    BY <2>5, <2>6 DEF Built
<1> QED
  BY <1>2, <1>3

(* Who returns from build_image leaves an image that is built.             *)
LEMMA ReturnsBuilt ==
  ASSUME IInv, NEW j \in Job, Step(j), Enter(j) \/ MakeEnds(j), Returns(j),
         NEW h \in Host, NEW i \in Image, h = place[j], i = Last(path[j])
  PROVE  Built(h, i)'
<1>0. TypeOK /\ LocksAlone
  BY DEF IInv, ImagesInv
<1>1. path[j] # <<>> /\ path[j] \in Seq(Image)
  BY HeldImages DEF Enter, MakeEnds, At
(* Who builds an image holds its lock.                                     *)
<1>2. ASSUME NEW k \in Making(h, i) PROVE k \in Job /\ i \in Held(k) /\ place[k] = h
  BY HeldImages DEF Making, At
<1>3. CASE Enter(j)
  <2>1. Holders(h, i) = {}
    BY <1>3 DEF Enter
  <2>2. Making(h, i) = {}
    BY <1>2, <2>1 DEF Holders
  <2>3. Finds(j, i)
    <3>1. path'[j] # path[j] /\ path'[j] # Append(path[j], Parent[i])
      <4>1. Len(path'[j]) = Len(path[j]) - 1 /\ Len(path[j]) \in Nat
        BY <1>0, <1>1, LastOfPath DEF Returns, TypeOK
      <4>2. Parent[i] \in Image => Len(Append(path[j], Parent[i])) = Len(path[j]) + 1
        BY <1>1, AppendToPath
      <4>3. Child(i) => Parent[i] \in Image
        BY VmHostsAssumption DEF Child
      <4> QED
        BY <4>1, <4>2, <4>3
    <3> QED
      BY <1>0, <1>3, <3>1 DEF Enter, Inside, Misses, TypeOK
  <2>4. CASE There(h, i)
    <3>1. Built(h, i)
      BY <2>2, <2>4 DEF Built
    <3> QED
      BY <3>1, BuiltStays
  <2>5. CASE ~There(h, i)
    <3>1. <<h, i>> \in misread'
      BY <2>3, <2>5 DEF Finds
    <3> QED
      BY <3>1 DEF Built
  <2> QED
    BY <2>4, <2>5
<1>4. CASE MakeEnds(j)
  <2>1. At(j, "making") /\ i \in Held(j)
    <3>1. At(j, "making") /\ ~At(j, "enter")
      BY <1>4 DEF MakeEnds, At
    <3> QED
      BY <1>1, <3>1, HeldImages
  <2>2. disk'[h][i] = "built"
    BY <1>0, <1>4 DEF MakeEnds, TypeOK
  <2>3. ASSUME NEW k \in Job, pc'[k] = "making", place'[k] = h, Last(path'[k]) = i PROVE FALSE
    <3>1. k # j
      BY <1>0, <2>3 DEF Returns, Goto, TypeOK
    <3>2. pc'[k] = pc[k] /\ place'[k] = place[k] /\ path'[k] = path[k]
      BY <1>0, <3>1, OthersStand DEF Others, TypeOK
    <3>3. k \in Making(h, i)
      BY <2>3, <3>2 DEF Making, At
    <3> QED
      BY <1>0, <1>2, <2>1, <3>1, <3>3 DEF LocksAlone
  <2>4. Making(h, i)' = {}
    BY <2>3 DEF Making, At
  <2> QED
    BY <2>2, <2>4 DEF Built, There
<1> QED
  BY <1>3, <1>4

(* What a task is about to clone was built before it came to it.           *)
LEMMA SourceBuilt ==
  ASSUME IInv, NEW j \in Job, Step(j)
  PROVE  ImageInv(j)'
<1> USE VmHostsAssumption
<1>0. /\ TypeOK /\ PathInv(j) /\ path[j] \in Seq(Image)
      /\ (Virsh' <=> Virsh)
  BY OthersStand, HeldImages DEF IInv, Others, Virsh
<1> SUFFICES ASSUME NEW h \in Host, NEW i \in Image, h = place'[j], i \in Source(j)'
             PROVE  Built(h, i)'
  BY DEF ImageInv
<1>1. pc'[j] \in {"make", "clone"} /\ (Enter(j) \/ MakeEnds(j))
  BY DiskStep DEF Source, At
<1>2. /\ path[j] # <<>> /\ h = place[j] /\ UNCHANGED noted
      /\ Len(path[j]) \in Nat \ {0}
  BY <1>0, <1>1, HeldImages, LastOfPath DEF Enter, MakeEnds, machineVars, At
<1>3. Returns(j)
  <2>1. CASE Enter(j) /\ Misses(j, Last(path[j]))
    <3>1. pc[j] = "enter"
      BY <2>1 DEF Enter, At
    <3>2. ~Child(Last(path[j])) /\ path'[j] = path[j] /\ pc'[j] = "make"
      BY <1>0, <1>1, <2>1, <3>1 DEF Misses, Goto, TypeOK
    <3>3. i = Parent[Last(path[j])] /\ Child(Last(path[j]))'
      BY <3>2 DEF Source, At
    <3> QED
      BY <1>0, <3>2, <3>3 DEF Child
  <2> QED
    BY <1>1, <2>1 DEF Enter, Inside, Finds, MakeEnds
<1>4. path'[j] = Front(path[j]) /\ pc'[j] = IF Len(path[j]) = 1 THEN "clone" ELSE "make"
  BY <1>0, <1>3 DEF Returns, Goto, TypeOK
<1>5. i = Last(path[j])
  <2>1. CASE Len(path[j]) = 1
    <3>1. New(j)' = New(j)
      BY <1>2 DEF New, Got
    <3>2. Last(path[j]) = VmImage[New(j)] /\ pc'[j] = "clone"
      BY <1>0, <1>2, <1>4, <2>1, LastOfPath DEF PathInv
    <3> QED
      BY <3>1, <3>2 DEF Source, At
  <2>2. CASE Len(path[j]) # 1
    <3>1. Len(path[j]) > 1
      <4>1. \A n \in Nat : n # 0 /\ n # 1 => n > 1
        OBVIOUS
      <4> QED
        BY <1>2, <2>2, <4>1
    <3>2. Last(path[j]) = Parent[Last(Front(path[j]))]
      BY <1>0, <3>1, Caller
    <3>3. pc'[j] = "make" /\ Last(path'[j]) = Last(Front(path[j]))
      BY <1>4, <2>2
    <3> QED
      BY <3>2, <3>3 DEF Source, At
  <2> QED
    BY <2>1, <2>2
<1> QED
  BY <1>1, <1>2, <1>3, <1>5, ReturnsBuilt

(* What a task has looked for in vain, it alone may make.                  *)
LEMMA MissStays ==
  ASSUME IInv, NEW j \in Job, Step(j), NEW k \in Job
  PROVE  MissInv(k)'
<1> SUFFICES ASSUME NEW h \in Host, NEW i \in Image, h = place'[k], path'[k] # <<>>, i \in Sought(k)'
             PROVE  <<h, i>> \in misread' \/ ~There(h, i)'
  BY DEF MissInv
<1>0. TypeOK /\ LocksAlone /\ MissInv(k) /\ Distinct(k)
  BY DEF IInv, ImagesInv
(* It was so before, and the image is not the one that is being made.      *)
<1>1. ASSUME h = place[k], path[k] # <<>>, i \in Sought(k),
             place[j] = h /\ path[j] # <<>> /\ pc[j] \in {"make", "making"} => Last(path[j]) # i
      PROVE  <<h, i>> \in misread' \/ ~There(h, i)'
  <2>1. <<h, i>> \in misread \/ ~There(h, i)
    BY <1>0, <1>1 DEF MissInv
  <2>2. disk'[h][i] = disk[h][i] /\ misread \subseteq misread' /\ backend' = backend
    BY <1>1, DiskStep
  <2> QED
    BY <2>1, <2>2 DEF There
<1>2. CASE k # j
  <2>1. pc'[k] = pc[k] /\ place'[k] = place[k] /\ path'[k] = path[k]
    BY <1>0, <1>2, OthersStand DEF Others, TypeOK
  <2>2. i \in Sought(k) /\ Sought(k) \subseteq Held(k)
    <3>1. Sought(k)' = Sought(k)
      BY <2>1 DEF Sought, At
    <3> QED
      BY <2>1, <3>1, HeldImages DEF At
  <2>3. ASSUME place[j] = h, path[j] # <<>>, pc[j] \in {"make", "making"}, Last(path[j]) = i PROVE FALSE
    <3>1. ~At(j, "enter")
      BY <2>3 DEF At
    <3>2. i \in Held(j)
      BY <2>3, <3>1, HeldImages
    <3> QED
      BY <1>0, <1>2, <2>1, <2>2, <2>3, <3>2 DEF LocksAlone
  <2> QED
    BY <1>1, <2>1, <2>2, <2>3
<1>3. CASE k = j
  <2>1. path[j] \in Seq(Image)
    BY HeldImages
  (* The image on top is not one of those below.                           *)
  <2>2. ASSUME path[j] # <<>>, pc[j] \in {"make", "making"}
        PROVE  Last(path[j]) \notin Range(Front(path[j]))
    <3>1. /\ Len(path[j]) \in Nat \ {0} /\ Last(path[j]) = path[j][Len(path[j])]
          /\ Front(path[j]) \in Seq(Image) /\ Len(Front(path[j])) = Len(path[j]) - 1
          /\ \A n \in 1..(Len(path[j]) - 1) : Front(path[j])[n] = path[j][n]
      BY <2>1, <2>2, LastOfPath
    <3>2. ASSUME NEW n \in 1..(Len(path[j]) - 1) PROVE path[j][n] # Last(path[j])
      <4>1. n \in 1..Len(path[j]) /\ Len(path[j]) \in 1..Len(path[j]) /\ n < Len(path[j])
        BY <3>1
      <4> QED
        BY <1>0, <1>3, <2>2, <3>1, <4>1 DEF Distinct, At
    <3>3. \A x : x \in Range(Front(path[j])) => \E n \in 1..(Len(path[j]) - 1) : Front(path[j])[n] = x
      BY <3>1, ImagesOfPath
    <3> QED
      BY <3>1, <3>2, <3>3
  <2>3. ASSUME NEW i0 \in Image, path'[j] = <<i0>>, pc'[j] = "enter" PROVE FALSE
    <3>1. Sought(j)' = Range(Front(<<i0>>))
      BY <2>3 DEF Sought, At
    <3> QED
      BY <1>3, <2>1, <3>1, ImagesOfPath
  (* build_image misses the image that it has come to.                     *)
  <2>4. ASSUME Enter(j), Misses(j, Last(path[j])), UNCHANGED <<place, disk>>, Sought(j)' = Range(path[j])
        PROVE  <<h, i>> \in misread' \/ ~There(h, i)'
    <3>1. path[j] # <<>> /\ Sought(j) = Range(Front(path[j])) /\ pc[j] = "enter"
          /\ Range(path[j]) = Range(Front(path[j])) \union {Last(path[j])}
      BY <2>4, HeldImages DEF Enter, At
    <3>2. CASE i = Last(path[j])
      <4>1. There(h, i) => <<h, i>> \in misread'
        BY <1>3, <2>4, <3>2 DEF Misses
      <4>2. There(h, i)' <=> There(h, i)
        BY <2>4, DiskStep DEF There
      <4> QED
        BY <4>1, <4>2
    <3>3. CASE i # Last(path[j])
      BY <1>1, <1>3, <2>4, <3>1, <3>3
    <3> QED
      BY <3>2, <3>3
  <2>5. CASE /\ UNCHANGED <<path, place, disk>> /\ Enter(j) /\ Misses(j, Last(path[j]))
             /\ pc'[j] = "make"
    <3>1. Sought(j)' = Range(path[j])
      BY <2>5 DEF Sought, At
    <3> QED
      BY <2>4, <2>5, <3>1
  <2>6. CASE /\ path'[j] = Append(path[j], Parent[Last(path[j])]) /\ Enter(j) /\ pc'[j] = "enter"
             /\ UNCHANGED <<place, disk>> /\ Misses(j, Last(path[j])) /\ Parent[Last(path[j])] \in Image
    <3>1. Front(Append(path[j], Parent[Last(path[j])])) = path[j]
      BY <2>1, <2>6, ImagesOfPath
    <3>2. Sought(j)' = Range(path[j])
      BY <2>6, <3>1 DEF Sought, At
    <3> QED
      BY <2>4, <2>6, <3>2
  <2>7. CASE /\ Enter(j) \/ MakeEnds(j)
             /\ path'[j] = Front(path[j]) /\ pc'[j] = "make" /\ UNCHANGED place
    <3>1. Sought(j)' = Range(Front(path[j]))
      BY <2>7 DEF Sought, At
    <3>2. path[j] # <<>> /\ Sought(j) = Range(Front(path[j]))
      BY <2>7, HeldImages DEF Enter, MakeEnds, At
    <3> QED
      BY <1>1, <1>3, <2>2, <2>7, <3>1, <3>2
  <2>8. CASE Make(j) /\ UNCHANGED <<path, place>> /\ pc'[j] = "making"
    <3>1. Sought(j)' = Range(Front(path[j]))
      BY <2>8 DEF Sought, At
    <3>2. path[j] # <<>> /\ Sought(j) = Range(path[j]) /\ pc[j] = "make"
          /\ Range(path[j]) = Range(Front(path[j])) \union {Last(path[j])}
      BY <2>8, HeldImages DEF Make, At, Sought
    <3> QED
      BY <1>1, <1>3, <2>2, <2>8, <3>1, <3>2
  <2> QED
    BY <1>3, <2>3, <2>5, <2>6, <2>7, <2>8, PathMoves
<1> QED
  BY <1>2, <1>3

(* A task does not wait for a lock that it has: the images on its stack    *)
(* are different, but for the one that it waits for.                       *)
LEMMA DistinctStays ==
  ASSUME IInv, NEW j \in Job, Step(j)
  PROVE  Distinct(j)'
<1>0. TypeOK /\ Distinct(j) /\ path[j] \in Seq(Image) /\ Len(path[j]) \in Nat
  BY HeldImages, EmptyPath DEF IInv, ImagesInv
(* Its lock was free, so that it is none of those below.                   *)
<1>1. ASSUME Enter(j)
      PROVE  \A n, m \in 1..Len(path[j]) : n < m => path[j][n] # path[j][m]
  <2>1. path[j] # <<>> /\ Held(j) = Range(Front(path[j])) /\ Last(path[j]) \notin Held(j)
        /\ At(j, "enter")
    BY <1>1, HeldImages DEF Enter, Holders, At
  <2>2. /\ Len(path[j]) \in Nat \ {0} /\ Last(path[j]) = path[j][Len(path[j])]
        /\ Front(path[j]) \in Seq(Image) /\ Len(Front(path[j])) = Len(path[j]) - 1
        /\ \A n \in 1..(Len(path[j]) - 1) : Front(path[j])[n] = path[j][n]
    BY <1>0, <2>1, LastOfPath
  <2>3. \A n \in 1..(Len(path[j]) - 1) : path[j][n] \in Range(Front(path[j]))
    BY <2>2, ImagesOfPath
  <2>4. ASSUME NEW n \in 1..Len(path[j]), NEW m \in 1..Len(path[j]), n < m
        PROVE  path[j][n] # path[j][m]
    <3>1. CASE m = Len(path[j])
      <4>1. n \in 1..(Len(path[j]) - 1)
        BY <1>0, <2>4, <3>1
      <4> QED
        BY <2>1, <2>2, <2>3, <3>1, <4>1
    <3>2. CASE m # Len(path[j])
      <4>1. m < Len(path[j])
        BY <1>0, <3>2
      <4> QED
        BY <1>0, <2>4, <4>1 DEF Distinct
    <3> QED
      BY <3>1, <3>2
  <2> QED
    BY <2>4
<1>2. CASE path'[j] = <<>>
  BY <1>2 DEF Distinct
<1>3. CASE \E i \in Image : path'[j] = <<i>> /\ pc'[j] = "enter"
  <2>1. Len(path'[j]) = 1
    BY <1>3, PathOfOne
  <2> QED
    BY <2>1 DEF Distinct
<1>4. CASE Enter(j) /\ UNCHANGED path
  BY <1>1, <1>4 DEF Distinct
<1>5. CASE /\ path'[j] = Append(path[j], Parent[Last(path[j])]) /\ Enter(j) /\ pc'[j] = "enter"
           /\ Parent[Last(path[j])] \in Image
  <2>1. Len(path'[j]) = Len(path[j]) + 1 /\ \A n \in 1..Len(path[j]) : path'[j][n] = path[j][n]
    BY <1>0, <1>5, AppendToPath
  <2>2. ASSUME NEW n \in 1..Len(path'[j]), NEW m \in 1..Len(path'[j]), n < m, m < Len(path'[j])
        PROVE  path'[j][n] # path'[j][m]
    <3>1. n \in 1..Len(path[j]) /\ m \in 1..Len(path[j])
      BY <1>0, <2>1, <2>2
    <3> QED
      BY <1>1, <1>5, <2>1, <2>2, <3>1
  <2> QED
    BY <1>5, <2>2 DEF Distinct, At
<1>6. CASE (Enter(j) \/ MakeEnds(j)) /\ path'[j] = Front(path[j]) /\ Len(path[j]) > 1
  <2>1. path[j] # <<>>
    BY <1>0, <1>6, EmptyPath
  <2>2. /\ Len(path'[j]) = Len(path[j]) - 1
        /\ \A n \in 1..(Len(path[j]) - 1) : path'[j][n] = path[j][n]
    BY <1>0, <1>6, <2>1, LastOfPath
  <2>3. ASSUME NEW n \in 1..Len(path'[j]), NEW m \in 1..Len(path'[j]), n < m
        PROVE  path'[j][n] # path'[j][m]
    <3>1. n \in 1..Len(path[j]) /\ m \in 1..Len(path[j]) /\ m < Len(path[j])
      BY <1>0, <2>2
    <3> QED
      BY <1>0, <2>2, <2>3, <3>1 DEF Distinct
  <2> QED
    BY <2>3 DEF Distinct
<1>7. CASE Make(j) /\ UNCHANGED path
  <2>1. ~At(j, "enter")
    BY <1>7 DEF Make, At
  <2> QED
    BY <1>0, <1>7, <2>1 DEF Distinct
<1> QED
  BY <1>2, <1>3, <1>4, <1>5, <1>6, <1>7, PathMoves

LEMMA ImagesStep ==
  ASSUME IInv, NEW j \in Job, Step(j)
  PROVE  ImagesInv'
<1>0. TypeOK /\ Others(j) /\ LocksAlone /\ (Virsh' <=> Virsh)
  BY OthersStand DEF IInv, ImagesInv, Others, Virsh
<1>1. ASSUME NEW k \in Job, k # j
      PROVE  /\ pc'[k] = pc[k] /\ place'[k] = place[k] /\ path'[k] = path[k]
             /\ Source(k)' = Source(k) /\ Held(k)' = Held(k)
  <2>1. pc'[k] = pc[k] /\ place'[k] = place[k] /\ path'[k] = path[k] /\ New(k)' = New(k)
    BY <1>0, <1>1, OthersGot DEF Others, TypeOK
  <2> QED
    BY <1>0, <2>1 DEF Source, Child, Held, At
<1>2. ASSUME NEW k \in Job, k # j PROVE ImageInv(k)' /\ Distinct(k)'
  <2>1. ImageInv(k) /\ Distinct(k)
    BY DEF IInv, ImagesInv
  <2>2. Distinct(k)'
    BY <1>1, <1>2, <2>1 DEF Distinct, At
  <2>3. ASSUME NEW h \in Host, NEW i \in Image, h = place'[k], i \in Source(k)'
        PROVE  Built(h, i)'
    <3>1. Built(h, i)
      BY <1>1, <1>2, <2>1, <2>3 DEF ImageInv
    <3> QED
      BY <3>1, BuiltStays
  <2>4. ImageInv(k)'
    BY <2>3 DEF ImageInv
  <2> QED
    BY <2>2, <2>4
<1>3. ASSUME NEW k \in Job, k # j, place'[j] = place'[k] PROVE Held(j)' \intersect Held(k)' = {}
  <2>1. Held(k)' = Held(k) /\ place'[k] = place[k]
    BY <1>1, <1>3
  <2>2. CASE Held(j)' = {}
    BY <2>2
  <2>3. CASE Held(j)' \subseteq Held(j) /\ place'[j] = place[j]
    BY <1>0, <1>3, <2>1, <2>3 DEF LocksAlone
  <2>4. CASE /\ Held(j)' \subseteq Held(j) \union {Last(path[j])} /\ place'[j] = place[j]
             /\ Enter(j)
    <3>1. Last(path[j]) \notin Held(k)
      BY <1>3, <2>1, <2>4 DEF Enter, Holders
    <3> QED
      BY <1>0, <1>3, <2>1, <2>4, <3>1 DEF LocksAlone
  <2> QED
    BY <2>2, <2>3, <2>4, HeldMoves
<1>4. LocksAlone'
  <2> SUFFICES ASSUME NEW a \in Job, NEW b \in Job, a # b, place'[a] = place'[b]
               PROVE  Held(a)' \intersect Held(b)' = {}
    BY DEF LocksAlone
  <2>1. CASE a # j /\ b # j
    BY <1>0, <1>1, <2>1 DEF LocksAlone
  <2>2. CASE a = j
    BY <1>3, <2>2
  <2>3. CASE b = j
    BY <1>3, <2>3
  <2> QED
    BY <2>1, <2>2, <2>3
<1> QED
  BY <1>2, <1>4, SourceBuilt, MissStays, DistinctStays DEF ImagesInv

------------------------------------------------------------------------------
(* The bridges.                                                            *)
LEMMA BridgesStep ==
  ASSUME IInv, NEW j \in Job, Step(j)
  PROVE  BridgesInv'
<1> USE VmHostsAssumption
<1>0. /\ TypeOK /\ PlaceInv(j) /\ BridgeInv(j) /\ AddsAlone /\ BridgesPrivate
      /\ Others(j) /\ PlaceInv(j)' /\ (Virsh' <=> Virsh)
  BY OthersStand, PlaceStep DEF IInv, BridgesInv, Others, Virsh
<1>1. ASSUME NEW k \in Job, k # j
      PROVE  /\ pc'[k] = pc[k] /\ place'[k] = place[k] /\ br'[k] = br[k]
             /\ jobBridge'[k] = jobBridge[k]
  BY <1>0, <1>1 DEF Others, TypeOK
(* What a step of a task does to its own bridge.                           *)
<1>2. /\ \A h \in Host : /\ bridges'[h] \in Nat /\ bridges'[h] >= bridges[h]
                         /\ bridges'[h] # bridges[h] => At(j, "adding") /\ h = place[j]
      /\ pc[j] # "gone" /\ (pc'[j] = "adding" => ListBridges(j))
      /\ \/ UNCHANGED jobBridge \/ jobBridge'[j] = {} \/ AddBridge(j)
      /\ place[j] # NoHost => place'[j] \in {place[j], NoHost}
      /\ place'[j] = NoHost => place[j] = NoHost \/ pc'[j] = "gone"
  <2> USE <1>0 DEF TypeOK, Goto, At, setting, images, bridgeVars, machineVars, PlaceInv
  <2>1. CASE HostNext(j)
    BY <2>1 DEF HostNext, Call, Choose, OnHost, ChooseRaises, Raise, Wants
  <2>2. CASE BridgeNext(j)
    BY <2>2 DEF BridgeNext, ListBridges, AddBridge, BridgeRaises, Raise
  <2>3. CASE ImageNext(j)
    BY <2>3 DEF ImageNext, Enter, Inside, Finds, Misses, Make, MakeEnds, MakeRaises, Returns, Raise
  <2>4. CASE MachineNext(j)
    BY <2>4 DEF MachineNext, Clone, CloneRaises, Booted, BootRaises, Raise
  <2>5. CASE CleanupNext(j)
    BY <2>5 DEF CleanupNext, Cleanup, DestroyRaises, CleanupEnds, Destroy, Over
  <2> QED
    BY <2>1, <2>2, <2>3, <2>4, <2>5 DEF Step, JobNext
<1>3. ASSUME NEW k \in Job, k # j PROVE BridgeInv(k)'
  <2>1. BridgeInv(k) /\ place[k] \in Host \union {NoHost} /\ jobBridge[k] \subseteq Nat
    BY DEF IInv, BridgesInv, TypeOK
  <2>2. At(k, "adding") => place[k] \in Host /\ bridges'[place[k]] = bridges[place[k]]
    BY <1>0, <1>2, <1>3 DEF AddsAlone, IInv, PlaceInv, At
  <2> QED
    BY <1>0, <1>1, <1>2, <1>3, <2>1, <2>2 DEF BridgeInv, At, TypeOK
<1>4. BridgeInv(j)'
  <2>1. CASE AddBridge(j)
    BY <1>0, <2>1 DEF AddBridge, BridgeInv, PlaceInv, At, Goto, TypeOK
  <2>2. CASE ~AddBridge(j)
    <3>1. jobBridge'[j] \subseteq jobBridge[j]
      BY <1>0, <1>2, <2>2 DEF TypeOK
    <3>2. At(j, "adding")' => br'[j] = bridges'[place'[j]]
      BY <1>0, <1>2 DEF ListBridges, PlaceInv, At, TypeOK
    <3>3. place'[j] # NoHost => \A n \in jobBridge'[j] : n < bridges'[place'[j]]
      BY <1>0, <1>2, <3>1 DEF BridgeInv, PlaceInv, At, TypeOK
    <3>4. place'[j] = NoHost /\ pc'[j] # "gone" => jobBridge'[j] = {}
      BY <1>0, <1>2, <3>1 DEF BridgeInv, At
    <3> QED
      BY <3>2, <3>3, <3>4 DEF BridgeInv, At
  <2> QED
    BY <2>1, <2>2
<1>5. AddsAlone'
  <2>1. ASSUME NEW k \in Job, k # j, At(k, "adding")', At(j, "adding")', place'[k] = place'[j]
        PROVE  FALSE
    BY <1>1, <1>2, <2>1 DEF ListBridges, Adding, At
  <2> QED
    BY <1>1, <1>0, <2>1 DEF AddsAlone, At
<1>6. BridgesPrivate'
  <2>1. ASSUME NEW k \in Job, k # j, place'[k] = place'[j], place'[j] # NoHost
        PROVE  jobBridge'[k] \intersect jobBridge'[j] = {}
    <3>1. /\ BridgeInv(k) /\ BridgeInv(j)' /\ jobBridge'[k] = jobBridge[k] /\ place'[k] = place[k]
          /\ place'[j] \in Host
      BY <1>0, <1>1, <1>4, <2>1 DEF IInv, BridgesInv, PlaceInv, TypeOK
    <3>2. CASE AddBridge(j)
      <4>1. /\ place'[j] = place[j] /\ jobBridge'[j] = {bridges[place[j]]}
            /\ bridges[place[j]] \in Nat
        BY <1>0, <3>1, <3>2 DEF AddBridge, BridgeInv, At, TypeOK
      <4>2. \A n \in jobBridge[k] : n \in Nat /\ n < bridges[place[j]]
        BY <1>0, <2>1, <3>1, <4>1 DEF BridgeInv, TypeOK
      <4> QED
        BY <3>1, <4>1, <4>2
    <3>3. CASE jobBridge'[j] = {}
      BY <3>3
    <3>4. CASE UNCHANGED jobBridge
      <4>1. place[j] = NoHost => jobBridge[j] = {}
        BY <1>0, <1>2 DEF BridgeInv, At
      <4>2. place[j] # NoHost => place'[j] = place[j]
        BY <1>2, <2>1
      <4> QED
        BY <1>0, <2>1, <3>1, <3>4, <4>1, <4>2 DEF BridgesPrivate
    <3> QED
      BY <1>2, <3>2, <3>3, <3>4
  <2>2. \A k \in Job : At(k, "adding")' => br'[k] = bridges'[place'[k]]
    BY <1>3, <1>4 DEF BridgeInv
  <2> QED
    BY <1>0, <1>1, <2>1, <2>2 DEF BridgesPrivate
<1> QED
  BY <1>3, <1>4, <1>5, <1>6 DEF BridgesInv

------------------------------------------------------------------------------
(* The machines, and type correctness.                                     *)
LEMMA MachinesStep ==
  ASSUME IInv, NEW j \in Job, Step(j)
  PROVE  MachinesInv'
<1>0. /\ TypeOK /\ PlaceInv(j) /\ MachineInv(j) /\ Others(j) /\ TypeOK' /\ PlaceInv(j)'
  BY OthersStand, PlaceStep, TypeStep DEF IInv, MachinesInv
<1>1. ASSUME NEW k \in Job, k # j PROVE MachineInv(k)'
  <2>1. /\ MachineInv(k) /\ pc'[k] = pc[k] /\ place'[k] = place[k] /\ jobHost'[k] = jobHost[k]
        /\ left'[k] = left[k]
    BY <1>0, <1>1 DEF IInv, MachinesInv, Others, TypeOK
  <2>2. \A h \in Host : \A v \in Machine : v[1] = k =>
            (v \in noted'[h] <=> v \in noted[h]) /\ (v \in machines'[h] <=> v \in machines[h])
    BY <1>1, MachineEffect
  <2>3. Got(k)' = Got(k)
    BY <1>0, <2>2 DEF Got, TypeOK
  <2>4. New(k)' = New(k)
    BY <2>3 DEF New
  <2> HIDE <1>0
  <2>5. lost \subseteq lost' /\ New(k)[1] = k
    BY MachineEffect, GotMachines DEF IInv
  <2>6. \A h \in Host : /\ noted[h] \subseteq Machine /\ noted'[h] \subseteq Machine
                        /\ machines[h] \subseteq Machine /\ machines'[h] \subseteq Machine
    BY <1>0 DEF TypeOK
  <2>7. \A h \in Host : \A v \in noted'[h] : v[1] = k => v \in machines'[h] /\ jobHost'[k] = h
    BY <2>1, <2>2, <2>6 DEF MachineInv
  <2>8. \A h \in Host : \A v \in machines'[h] : v[1] = k =>
            \/ v \in lost' \/ v \in noted'[h]
            \/ At(k, "boot")' /\ h = place'[k] /\ v = New(k)'
            \/ At(k, "destroy")' /\ h = place'[k] /\ v \in left'[k]
    BY <2>1, <2>2, <2>4, <2>5, <2>6 DEF MachineInv, At
  <2>9. At(k, "boot")' => New(k)' \in machines'[place'[k]]
    <3> SUFFICES ASSUME At(k, "boot") PROVE New(k) \in machines'[place[k]]
      BY <2>1, <2>4 DEF At
    <3>1. place[k] \in Host /\ New(k) \in machines[place[k]]
      BY <2>1 DEF MachineInv, IInv, PlaceInv, At
    <3> QED
      BY <2>2, <2>5, <2>6, <3>1
  <2> QED
    BY <2>1, <2>3, <2>7, <2>8, <2>9 DEF MachineInv
<1>2. MachineInv(j)'
  <2> USE <1>0 DEF TypeOK, PlaceInv, At, Goto, setting, images, machineVars, bridgeVars
  <2>1. ASSUME UNCHANGED machineVars, pc[j] \notin {"boot", "destroy"}, pc'[j] \notin {"boot", "destroy"},
               jobHost'[j] = jobHost[j] \/ jobHost[j] = NoHost,
               pc'[j] \in {"choosing", "net", "adding", "enter", "make", "making", "clone"} =>
                   Cardinality(Got(j)) < NumVms[j]
        PROVE  MachineInv(j)'
    <3>1. Got(j)' = Got(j)
      BY <2>1 DEF Got
    <3>2. \A h \in Host : \A v \in noted[h] : v[1] = j => v \in machines[h] /\ jobHost'[j] = h
      BY <2>1, VmHostsAssumption DEF MachineInv
    <3> QED
      BY <2>1, <3>1, <3>2 DEF MachineInv
  <2>2. CASE HostNext(j)
    BY <2>1, <2>2 DEF HostNext, Call, Choose, OnHost, ChooseRaises, Raise, Wants, MachineInv
  <2>3. CASE BridgeNext(j)
    BY <2>1, <2>3 DEF BridgeNext, ListBridges, AddBridge, BridgeRaises, Raise, MachineInv
  <2>4. CASE ImageNext(j)
    BY <2>1, <2>4 DEF ImageNext, Enter, Inside, Finds, Misses, Make, MakeEnds, MakeRaises, Returns, Raise, MachineInv
  <2>5. CASE MachineNext(j)
    <3>1. CASE Clone(j)
      <4>1. /\ machines' = [machines EXCEPT ![place[j]] = @ \union {New(j)}] /\ place'[j] = place[j]
            /\ UNCHANGED <<noted, left, lost, jobHost>> /\ pc'[j] = "boot" /\ place[j] \in Host
            /\ pc[j] = "clone"
        BY <3>1 DEF Clone, CanClone
      <4>2. Got(j)' = Got(j) /\ New(j)' = New(j)
        BY <4>1 DEF Got, New
      <4>3. \A h \in Host : machines'[h] = IF h = place[j] THEN machines[h] \union {New(j)} ELSE machines[h]
        BY <4>1
      <4> QED
        BY <4>1, <4>2, <4>3 DEF MachineInv
    <3>2. CASE CloneRaises(j)
      <4>1. /\ UNCHANGED <<noted, left, jobHost, place>> /\ pc'[j] = "failed" /\ pc[j] = "clone"
            /\ lost \subseteq lost'
        BY <3>2 DEF CloneRaises, Raise
      <4>2. \A h \in Host : \A v \in machines'[h] : v \in machines[h] \/ v \in lost'
        BY <3>2 DEF CloneRaises
      <4>3. \A h \in Host : machines[h] \subseteq machines'[h]
        BY <3>2 DEF CloneRaises
      <4>4. Got(j)' = Got(j)
        BY <4>1 DEF Got
      <4> QED
        BY <4>1, <4>2, <4>3, <4>4 DEF MachineInv
    <3>3. CASE Booted(j)
      <4>1. /\ noted' = [noted EXCEPT ![place[j]] = @ \union {New(j)}] /\ place[j] \in Host
            /\ UNCHANGED <<machines, left, lost, jobHost>> /\ pc'[j] = "idle"
            /\ New(j) \in machines[place[j]] /\ jobHost[j] = place[j]
        BY <3>3 DEF Booted, MachineInv
      <4>2. \A h \in Host : \A v \in noted'[h] : v[1] = j => v \in machines'[h] /\ jobHost'[j] = h
        BY <4>1 DEF MachineInv
      <4>3. \A h \in Host : \A v \in machines'[h] : v[1] = j => v \in lost' \/ v \in noted'[h]
        BY <3>3, <4>1 DEF MachineInv, Booted
      <4> QED
        BY <4>1, <4>2, <4>3 DEF MachineInv
    <3>4. CASE BootRaises(j)
      BY <3>4 DEF BootRaises, Raise, MachineInv
    <3> QED
      BY <2>5, <3>1, <3>2, <3>3, <3>4 DEF MachineNext
  <2>6. CASE CleanupNext(j)
    <3>1. CASE Cleanup(j) /\ jobHost[j] = NoHost
      BY <2>1, <3>1 DEF Cleanup, Over
    <3>2. CASE Cleanup(j) /\ jobHost[j] \in Host
      <4>1. /\ jobHost'[j] = NoHost /\ UNCHANGED <<machines, lost>> /\ pc'[j] = "destroy"
            /\ left'[j] = noted[jobHost[j]] \intersect Got(j) /\ place'[j] = jobHost[j]
            /\ noted' = [noted EXCEPT ![jobHost[j]] = @ \ Got(j)]
        BY <3>2, VmHostsAssumption DEF Cleanup
      <4>2. \A h \in Host : \A v \in noted[h] : v[1] = j => v \in Got(j) /\ h = jobHost[j]
        BY DEF MachineInv, Got
      <4>3. \A v \in Got(j) : v[1] = j
        BY DEF Got
      <4>4. \A h \in Host : \A v \in noted'[h] : v[1] # j
        BY <4>1, <4>2
      <4>5. \A h \in Host : \A v \in machines[h] : v[1] = j =>
                v \in lost \/ (v \in noted[h] /\ h = jobHost[j] /\ v \in Got(j))
        BY <3>2, <4>2 DEF MachineInv, Cleanup
      <4> QED
        BY <4>1, <4>3, <4>4, <4>5 DEF MachineInv
    <3>3. ASSUME NEW v \in Machine, Destroy(j, v) PROVE MachineInv(j)'
      <4>1. /\ left'[j] = left[j] \ {v} /\ lost \subseteq lost'
            /\ UNCHANGED <<noted, jobHost, pc, place>> /\ pc[j] = "destroy"
            /\ jobHost[j] = NoHost /\ v[1] = j
        BY <3>3 DEF Destroy, MachineInv
      <4>2. \A h \in Host : \A w \in noted[h] : w[1] # j
        BY <4>1, VmHostsAssumption DEF MachineInv
      <4>3. \A h \in Host : /\ machines'[h] \subseteq machines[h]
                            /\ h = place[j] /\ v \in machines'[h] => v \in lost'
        BY <3>3 DEF Destroy
      <4>4. \A h \in Host : \A w \in machines'[h] : w[1] = j =>
                w \in lost' \/ (h = place'[j] /\ w \in left'[j])
        BY <4>1, <4>2, <4>3 DEF MachineInv
      <4> QED
        BY <4>1, <4>2, <4>4 DEF MachineInv
    <3>4. CASE DestroyRaises(j)
      <4>1. /\ left'[j] = {} /\ lost' = lost \union left[j] /\ UNCHANGED <<noted, jobHost>>
            /\ pc'[j] = "gone" /\ pc[j] = "destroy" /\ jobHost[j] = NoHost
        BY <3>4 DEF DestroyRaises, Over
      <4>2. \A h \in Host : \A w \in noted[h] : w[1] # j
        BY <4>1, VmHostsAssumption DEF MachineInv
      <4>3. PICK v \in left[j] : machines' \in {machines, [machines EXCEPT ![place[j]] = @ \ {v}]}
        BY <3>4 DEF DestroyRaises
      <4>4. \A h \in Host : machines'[h] \subseteq machines[h]
        BY <4>3
      <4>5. \A h \in Host : \A w \in machines'[h] : w[1] = j => w \in lost'
        BY <4>1, <4>2, <4>4 DEF MachineInv
      <4> QED
        BY <4>1, <4>2, <4>5 DEF MachineInv
    <3>5. CASE CleanupEnds(j)
      BY <3>5 DEF CleanupEnds, Over, MachineInv
    <3> QED
      BY <2>6, <3>1, <3>2, <3>3, <3>4, <3>5 DEF CleanupNext, Cleanup
  <2> QED
    BY <2>2, <2>3, <2>4, <2>5, <2>6 DEF Step, JobNext
(* The bridge.                                                             *)
<1>3. ASSUME NEW k \in Job, k # j PROVE GoneInv(k)'
  <2>1. GoneInv(k) /\ pc'[k] = pc[k] /\ jobBridge'[k] = jobBridge[k]
    BY <1>0, <1>3 DEF IInv, MachinesInv, Others, TypeOK
  <2>2. lost \subseteq lost'
    BY MachineEffect
  <2> QED
    BY <2>1, <2>2 DEF GoneInv, At
<1>4. GoneInv(j)'
  <2> SUFFICES ASSUME pc'[j] = "gone" PROVE jobBridge'[j] = {} \/ \E v \in lost' : v[1] = j
    BY DEF GoneInv, At
  <2> USE <1>0 DEF TypeOK, At, Goto
  <2>1. CASE HostNext(j)
    BY <2>1 DEF HostNext, Call, Choose, OnHost, ChooseRaises, Raise
  <2>2. CASE BridgeNext(j)
    BY <2>2 DEF BridgeNext, ListBridges, AddBridge, BridgeRaises, Raise
  <2>3. CASE ImageNext(j)
    BY <2>3 DEF ImageNext, Enter, Inside, Finds, Misses, Make, MakeEnds, MakeRaises, Returns, Raise
  <2>4. CASE MachineNext(j)
    BY <2>4 DEF MachineNext, Clone, CloneRaises, Booted, BootRaises, Raise
  <2>5. CASE CleanupNext(j)
    <3>1. CASE Cleanup(j)
      <4>1. pc[j] \in {"idle", "failed"} /\ jobHost[j] = NoHost /\ UNCHANGED jobBridge
        BY <3>1 DEF Cleanup, bridgeVars
      <4>2. place[j] = NoHost /\ BridgeInv(j)
        BY <4>1 DEF PlaceInv, IInv, BridgesInv
      <4> QED
        BY <4>1, <4>2 DEF BridgeInv
    <3>2. CASE DestroyRaises(j)
      <4>1. PICK v \in left[j] : TRUE
        BY <3>2 DEF DestroyRaises
      <4>2. v \in lost' /\ v[1] = j
        BY <3>2, <4>1 DEF DestroyRaises, MachineInv
      <4> QED
        BY <4>2
    <3>3. CASE CleanupEnds(j)
      BY <3>3 DEF CleanupEnds
    <3>4. ASSUME NEW v \in Machine, Destroy(j, v) PROVE FALSE
      BY <3>4 DEF Destroy
    <3> QED
      BY <2>5, <3>1, <3>2, <3>3, <3>4 DEF CleanupNext
  <2> QED
    BY <2>1, <2>2, <2>3, <2>4, <2>5 DEF Step, JobNext
<1> QED
  BY <1>1, <1>2, <1>3, <1>4 DEF MachinesInv

------------------------------------------------------------------------------
(* The theorems.                                                           *)
LEMMA IInvInit == Init => IInv
<1> SUFFICES ASSUME Init PROVE IInv
  OBVIOUS
<1>1. TypeOK
  BY VmHostsAssumption, EmptySeq DEF Init, TypeOK, Place, Disk
<1>2. \A j \in Job : PlaceInv(j) /\ PathInv(j)
  BY EmptySeq DEF Init, PlaceInv, PathInv, At
<1>3. \A j \in Job : Source(j) = {} /\ Held(j) = {} /\ path[j] = <<>> /\ Len(path[j]) = 0
  BY EmptySeq, ImagesOfPath DEF Init, Source, Held, At
<1>4. ImagesInv
  <2>1. \A j \in Job : ImageInv(j) /\ MissInv(j)
    BY <1>3 DEF ImageInv, MissInv
  <2>2. \A j \in Job : Distinct(j)
    BY <1>3 DEF Distinct
  <2> QED
    BY <1>3, <2>1, <2>2 DEF ImagesInv, LocksAlone
<1>5. BridgesInv /\ MachinesInv
  BY DEF Init, BridgesInv, BridgeInv, AddsAlone, BridgesPrivate, MachinesInv, MachineInv, GoneInv, At
<1> QED
  BY <1>1, <1>2, <1>4, <1>5 DEF IInv

(* The load of the hosts is nothing to the invariant.                      *)
LEMMA LoadStep ==
  ASSUME IInv, tight' \subseteq Host,
         UNCHANGED <<backend, jobHost, images, bridgeVars, machineVars, pc, place, path>>
  PROVE  IInv'
<1> USE DEF images, bridgeVars, machineVars
<1>1. TypeOK'
  BY DEF IInv, TypeOK
<1>2. \A j \in Job : Got(j)' = Got(j) /\ New(j)' = New(j)
  BY DEF Got, New
<1>3. \A j \in Job : PlaceInv(j)' /\ PathInv(j)'
  BY <1>2 DEF IInv, PlaceInv, PathInv, At, Virsh
<1>4. BridgesInv'
  BY DEF IInv, BridgesInv, BridgeInv, AddsAlone, BridgesPrivate, At
<1>5. ImagesInv'
  <2>1. \A j \in Job : Source(j)' = Source(j) /\ Sought(j)' = Sought(j) /\ Held(j)' = Held(j)
    BY <1>2 DEF Source, Sought, Held, Child, Virsh, At
  <2>2. \A h \in Host, i \in Image : (Built(h, i)' <=> Built(h, i)) /\ (There(h, i)' <=> There(h, i))
    BY DEF Built, There, Making, At
  <2>3. ASSUME NEW j \in Job PROVE ImageInv(j)' /\ MissInv(j)' /\ Distinct(j)'
    <3>1. ImageInv(j) /\ MissInv(j) /\ Distinct(j)
      BY DEF IInv, ImagesInv
    <3>2. ImageInv(j)' /\ MissInv(j)'
      BY <2>1, <2>2, <3>1 DEF ImageInv, MissInv
    <3>3. Distinct(j)'
      BY <3>1 DEF Distinct, At
    <3> QED
      BY <3>2, <3>3
  <2>4. LocksAlone'
    BY <2>1 DEF IInv, ImagesInv, LocksAlone
  <2> QED
    BY <2>3, <2>4 DEF ImagesInv
<1>6. MachinesInv'
  BY <1>2 DEF IInv, MachinesInv, MachineInv, GoneInv, At
<1> QED
  BY <1>1, <1>3, <1>4, <1>5, <1>6 DEF IInv

LEMMA IInvStep == IInv /\ [Next]_allVars => IInv'
<1>1. ASSUME IInv, NEW j \in Job, Step(j) PROVE IInv'
  <2>1. TypeOK /\ \A k \in Job : PlaceInv(k) /\ PathInv(k) /\ MachineInv(k)
    BY <1>1 DEF IInv, MachinesInv
  <2>2. PlaceInv(j)' /\ PathInv(j)'
    BY <1>1, <2>1, PlaceStep, PathStep
  <2>3. ASSUME NEW k \in Job, k # j PROVE PlaceInv(k)' /\ PathInv(k)'
    <3>1. /\ pc'[k] = pc[k] /\ place'[k] = place[k] /\ path'[k] = path[k] /\ jobHost'[k] = jobHost[k]
          /\ (Virsh' <=> Virsh)
      BY <1>1, <2>1, <2>3, OthersStand DEF Others, TypeOK, Virsh
    <3>2. New(k)' = New(k)
      BY <1>1, <2>3, OthersGot
    <3> QED
      BY <2>1, <3>1, <3>2 DEF PlaceInv, PathInv, At
  <2>4. \A k \in Job : PlaceInv(k)' /\ PathInv(k)'
    BY <2>2, <2>3
  <2> QED
    BY <1>1, <2>4, TypeStep, BridgesStep, ImagesStep, MachinesStep DEF IInv
<1>2. ASSUME IInv, UNCHANGED allVars PROVE IInv'
  <2>1. tight' \subseteq Host
    BY <1>2 DEF allVars, setting, IInv, TypeOK
  <2> QED
    BY <1>2, <2>1, LoadStep DEF allVars, setting
<1>3. ASSUME IInv, LoadChanges PROVE IInv'
  BY <1>3, LoadStep DEF LoadChanges
<1> QED
  BY <1>1, <1>2, <1>3 DEF Next, Step

LEMMA IInvCorrect == Spec => []IInv
  BY IInvInit, IInvStep, PTL DEF Spec

(* The tasks, the hosts and the images keep their types.                   *)
THEOREM TypeCorrect == Spec => []TypeOK
<1>1. IInv => TypeOK
  BY DEF IInv
<1> QED
  BY <1>1, IInvCorrect, PTL

(* Whatever fails, for any depth of parents and any number of jobs and     *)
(* hosts: what is cloned, for a machine or for a child image, is there, on *)
(* zfs built to its end, and nobody is building it, unless exist has       *)
(* answered wrongly about that image on that host.                         *)
THEOREM ClonesWhatIsBuiltCorrect == Spec => []ClonesWhatIsBuilt
<1>1. IInv => ClonesWhatIsBuilt
  <2> SUFFICES ASSUME IInv, NEW j \in Job, NEW i \in Source(j)
               PROVE  Built(place[j], i)
    BY DEF ClonesWhatIsBuilt, Built
  <2>1. TypeOK /\ PlaceInv(j) /\ ImageInv(j) /\ MachineInv(j)
    BY DEF IInv, ImagesInv, MachinesInv
  <2>2. place[j] \in Host
    BY <2>1 DEF Source, PlaceInv, At
  <2>3. At(j, "make") => Last(path[j]) \in Image
    BY HeldImages DEF At
  <2>4. At(j, "clone") => VmImage[New(j)] \in Image
    BY <2>1, GotMachines, VmHostsAssumption DEF MachineInv, At
  <2>5. i \in Image
    BY <2>3, <2>4, VmHostsAssumption DEF Source, Child
  <2> QED
    BY <2>1, <2>2, <2>5 DEF ImageInv
<1> QED
  BY <1>1, IInvCorrect, PTL

(* A bridge is added under a number that is free, and no two jobs on a     *)
(* host have one bridge.                                                   *)
THEOREM BridgesPrivateCorrect == Spec => []BridgesPrivate
<1>1. IInv => BridgesPrivate
  BY DEF IInv, BridgesInv
<1> QED
  BY <1>1, IInvCorrect, PTL

(* The machines that hosts still have of a job that was cleaned up are     *)
(* ones whose clone, boot or destruction failed (which may have been       *)
(* carried out all the same); its bridge stays on the host, and unless a   *)
(* machine of it was lost the number is forgotten; and every machine that  *)
(* is noted is where cleanup will look.                                    *)
THEOREM GivenBackCorrect == Spec => []GivenBack
<1>1. IInv => GivenBack
  <2> SUFFICES ASSUME IInv, NEW j \in Job, NEW h \in Host
               PROVE  /\ At(j, "gone") => {v \in machines[h] : v[1] = j} \subseteq lost
                      /\ At(j, "gone") => jobBridge[j] = {} \/ \E v \in lost : v[1] = j
                      /\ \A v \in noted[h] : v[1] = j => v \in machines[h] /\ jobHost[j] = h
    BY DEF GivenBack
  <2>1. PlaceInv(j) /\ MachineInv(j) /\ GoneInv(j)
    BY DEF IInv, MachinesInv
  <2> QED
    BY <2>1, VmHostsAssumption DEF PlaceInv, MachineInv, GoneInv, At
<1> QED
  BY <1>1, IInvCorrect, PTL

==============================================================================
