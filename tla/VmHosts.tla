------------------------------ MODULE VmHosts ------------------------------
(***************************************************************************)
(* The providers of rci/providers/virsh.py (on zfs and on btrfs) and       *)
(* rci/providers/lxc.py: a job is given a host, the image its machines are *)
(* cloned from is built there on first use, the clone is booted and noted, *)
(* and cleanup(job) destroys what was noted.                               *)
(*                                                                         *)
(* A task is a job that calls get_vm, once per machine and one after the   *)
(* other, and then cleanup; an action is the code between two awaits of    *)
(* it.  The locks are not variables: who holds one follows from where the  *)
(* tasks stand, since all of them are taken and given back by "with".      *)
(***************************************************************************)
EXTENDS Naturals, FiniteSets, SequencesExt

CONSTANTS
    Backends,       \* the storages in question, of "zfs", "btrfs" and "lxc"
    Host, Image, Job,
    Parent,         \* the "parent" of an image in the configuration, or NoImage
    NumVms,         \* how many machines a job asks for
    VmImage,        \* the image that a machine is cloned from
    Bridged,        \* the jobs whose machines have a network "<prefix>%" (virsh)
    MaxContainers,  \* max_containers of the lxc provider
    NoHost, NoImage

Machine == UNION {{j} \X (1..NumVms[j]) : j \in Job}

ASSUME VmHostsAssumption ==
    /\ Backends \subseteq {"zfs", "btrfs", "lxc"}
    /\ NoHost \notin Host /\ NoImage \notin Image
    /\ Parent \in [Image -> Image \union {NoImage}]
    /\ NumVms \in [Job -> Nat \ {0}] /\ VmImage \in [Machine -> Image]
    /\ Bridged \subseteq Job
    /\ MaxContainers \in Nat

Place == {"idle", "choosing", "net", "adding", "enter", "make", "making",
          "clone", "boot", "failed", "destroy", "gone"}
Disk == {"absent", "partial", "built"}
VARIABLES
    backend,    \* of the provider
    tight,      \* the virsh hosts that lack free memory or have too much load
    jobHost,    \* _job_host_map (lxc: job_host)
    disk,       \* what a host has under the name of an image
    bridges,    \* how many bridges a host has; they are numbered from 0, and stay
    jobBridge,  \* _job_bridge_numbers: the bridges of a job, none or one
    machines,   \* the machines a host has, booted or not
    noted,      \* those of them that are in its _job_vms (lxc: job_vm)
    pc, place,  \* where the task of a job stands, and its variable host
    path,       \* the images its calls of build_image are for, the innermost last
    br, left,   \* its variables: the bridge to be added; the machines to destroy
    lost,       \* auxiliary: the machines whose clone, boot or destruction failed
    misread     \* auxiliary: the images of which exist has said what was not so

setting == <<backend, tight>>
images == <<disk, misread>>
bridgeVars == <<bridges, jobBridge, br>>
machineVars == <<machines, noted, left, lost>>
allVars == <<setting, jobHost, images, bridgeVars, machineVars, pc, place, path>>

Virsh == backend # "lxc"

TypeOK ==
    /\ backend \in Backends /\ tight \subseteq Host
    /\ jobHost \in [Job -> Host \union {NoHost}]
    /\ disk \in [Host -> [Image -> Disk]] /\ misread \subseteq Host \X Image
    /\ bridges \in [Host -> Nat]
    /\ jobBridge \in [Job -> SUBSET Nat] /\ br \in [Job -> Nat]
    /\ machines \in [Host -> SUBSET Machine] /\ noted \in [Host -> SUBSET Machine]
    /\ left \in [Job -> SUBSET Machine] /\ lost \subseteq Machine
    /\ pc \in [Job -> Place] /\ place \in [Job -> Host \union {NoHost}]
    /\ path \in [Job -> Seq(Image)]

Init ==
    /\ backend \in Backends /\ tight = {}
    /\ jobHost = [j \in Job |-> NoHost]
    /\ disk = [h \in Host |-> [i \in Image |-> "absent"]] /\ misread = {}
    /\ bridges = [h \in Host |-> 0]
    /\ jobBridge = [j \in Job |-> {}] /\ br = [j \in Job |-> 0]
    /\ machines = [h \in Host |-> {}] /\ noted = [h \in Host |-> {}]
    /\ left = [j \in Job |-> {}] /\ lost = {}
    /\ pc = [j \in Job |-> "idle"] /\ place = jobHost
    /\ path = [j \in Job |-> <<>>]

At(j, p) == pc[j] = p
Goto(j, p) == pc' = [pc EXCEPT ![j] = p]

(* The machines of a job that get_vm has returned.                         *)
Got(j) == {v \in UNION {noted[h] : h \in Host} : v[1] = j}

(* The machine that a call is for.                                         *)
New(j) == <<j, Cardinality(Got(j)) + 1>>

(* A variable of a task is reset where its life ends.                      *)
Over(j) == Goto(j, "gone") /\ place' = [place EXCEPT ![j] = NoHost]

(* An exception leaves every "with" on its way, and get_vm raises.         *)
Raise(j) == Goto(j, "failed") /\ path' = [path EXCEPT ![j] = <<>>]

------------------------------------------------------------------------------
(* The host of a job.                                                      *)

(* Once get_vm has its host: the bridge of the job, if it is new; then the *)
(* image.                                                                  *)
OnHost(j, h) ==
    /\ place' = [place EXCEPT ![j] = h]
    /\ IF Virsh /\ j \in Bridged /\ jobBridge[j] = {}
       THEN Goto(j, "net") /\ UNCHANGED path
       ELSE Goto(j, "enter") /\ path' = [path EXCEPT ![j] = <<VmImage[New(j)]>>]

Choosing == {j \in Job : At(j, "choosing")}
Wants(j) == At(j, "idle") /\ Cardinality(Got(j)) < NumVms[j]

(* Seeded fault: the map is not looked at.                                 *)
Call_ChoosesAgain(j) ==
    /\ Wants(j)
    /\ Choosing = {} /\ Goto(j, "choosing") /\ UNCHANGED <<place, path>>
    /\ UNCHANGED <<setting, jobHost, images, bridgeVars, machineVars>>

(* get_vm: the host the job has, or else one is chosen under the lock of   *)
(* the provider.                                                           *)
Call(j) ==
    /\ Wants(j)
    /\ IF jobHost[j] # NoHost
       THEN OnHost(j, jobHost[j])
       ELSE Choosing = {} /\ Goto(j, "choosing") /\ UNCHANGED <<place, path>>
    /\ UNCHANGED <<setting, jobHost, images, bridgeVars, machineVars>>

(* lxc-ls counts the images as well.                                       *)
Containers(h) ==
    Cardinality(machines[h]) + Cardinality({i \in Image : disk[h][i] # "absent"})

(* The free memory and the load of a virsh host change as they will: with  *)
(* machines that boot or that were not destroyed, and with what else runs. *)
LoadChanges ==
    /\ Virsh
    /\ tight' \in SUBSET Host
    /\ UNCHANGED <<backend, jobHost, images, bridgeVars, machineVars, pc, place, path>>

(* The loop over the hosts goes on, under the lock, until one has room.    *)
HasRoom(h) == IF Virsh THEN h \notin tight ELSE Containers(h) < MaxContainers

(* On lxc the status is that of wc: when lxc-ls fails, its host counts as  *)
(* empty.                                                                  *)
Choose(j, h) ==
    /\ At(j, "choosing") /\ (HasRoom(h) \/ ~Virsh)
    /\ jobHost' = [jobHost EXCEPT ![j] = h]
    /\ OnHost(j, h)
    /\ UNCHANGED <<setting, images, bridgeVars, machineVars>>

(* update_stats: a host does not answer.                                   *)
ChooseRaises(j) ==
    /\ At(j, "choosing")
    /\ Raise(j)
    /\ UNCHANGED <<setting, jobHost, images, bridgeVars, machineVars, place>>

------------------------------------------------------------------------------
(* The bridge of a job (virsh).                                            *)

Adding(h) == {j \in Job : At(j, "adding") /\ place[j] = h}

(* Seeded fault: without bridge_lock.                                      *)
ListBridges_NoLock(j) ==
    /\ At(j, "net")
    /\ br' = [br EXCEPT ![j] = bridges[place[j]]]
    /\ Goto(j, "adding")
    /\ UNCHANGED <<setting, jobHost, images, bridges, jobBridge, machineVars, place, path>>

(* The least number that no bridge has.                                    *)
ListBridges(j) ==
    /\ At(j, "net") /\ Adding(place[j]) = {}
    /\ br' = [br EXCEPT ![j] = bridges[place[j]]]
    /\ Goto(j, "adding")
    /\ UNCHANGED <<setting, jobHost, images, bridges, jobBridge, machineVars, place, path>>

AddBridge(j) ==
    /\ At(j, "adding") /\ br[j] = bridges[place[j]]
    /\ bridges' = [bridges EXCEPT ![place[j]] = @ + 1]
    /\ jobBridge' = [jobBridge EXCEPT ![j] = {br[j]}]
    /\ br' = [br EXCEPT ![j] = 0]
    /\ Goto(j, "enter")
    /\ path' = [path EXCEPT ![j] = <<VmImage[New(j)]>>]
    /\ UNCHANGED <<setting, jobHost, images, machineVars, place>>

(* It cannot be added, or it is there and cannot be set up.                *)
BridgeRaises(j) ==
    /\ At(j, "adding")
    /\ br' = [br EXCEPT ![j] = 0]
    /\ bridges' \in {bridges, [bridges EXCEPT ![place[j]] = @ + 1]}
    /\ Raise(j)
    /\ UNCHANGED <<setting, jobHost, images, jobBridge, machineVars, place>>

------------------------------------------------------------------------------
(* The image.                                                              *)

(* The images whose locks a task holds: those of its calls of build_image, *)
(* the innermost once it is past the lock.                                 *)
Held(j) == Range(IF At(j, "enter") THEN Front(path[j]) ELSE path[j])
Holders(h, i) == {j \in Job : place[j] = h /\ i \in Held(j)}

(* zfs looks for the snapshot, which is taken last; btrfs and lxc for what *)
(* has the name.                                                           *)
There(h, i) == IF backend = "zfs" THEN disk[h][i] = "built" ELSE disk[h][i] # "absent"

(* An image of the virsh providers that is built from another one.         *)
Child(i) == Virsh /\ Parent[i] # NoImage

(* The innermost build_image returns: to the caller that clones its image, *)
(* which is the build of the child or the creation of the machine.         *)
Returns(j) ==
    /\ path' = [path EXCEPT ![j] = Front(@)]
    /\ Goto(j, IF Len(path[j]) = 1 THEN "clone" ELSE "make")

(* exist finds the image, and it is taken.  The command runs unchecked:    *)
(* zfs and lxc take the status None of a lost connection for a success.    *)
Finds(j, i) ==
    /\ There(place[j], i) \/ backend # "btrfs"
    /\ misread' = IF There(place[j], i) THEN misread ELSE misread \union {<<place[j], i>>}
    /\ Returns(j)

(* exist does not find it: any failure reads so on zfs and lxc, and on     *)
(* btrfs the empty output of a command that failed or was cut off.  A      *)
(* child has its parent built first; any other image is made at once.      *)
Misses(j, i) ==
    /\ misread' = IF There(place[j], i) THEN misread \union {<<place[j], i>>} ELSE misread
    /\ IF Child(i) THEN path' = [path EXCEPT ![j] = Append(@, Parent[i])] /\ UNCHANGED pc
                   ELSE Goto(j, "make") /\ UNCHANGED path

(* What build_image does once it has the lock of image i.                  *)
Inside(j, i) == Finds(j, i) \/ Misses(j, i)

(* Seeded fault: without the lock of the image.                            *)
Enter_NoLock(j) ==
    /\ At(j, "enter")
    /\ Inside(j, Last(path[j]))
    /\ UNCHANGED <<setting, jobHost, disk, bridgeVars, machineVars, place>>

(* Seeded fault: one lock for all the images of a host.                    *)
Enter_OneLock(j) ==
    /\ At(j, "enter") /\ \A i \in Image : Holders(place[j], i) = {}
    /\ Inside(j, Last(path[j]))
    /\ UNCHANGED <<setting, jobHost, disk, bridgeVars, machineVars, place>>

(* build_image is called, and calls itself, up to the lock and exist.      *)
Enter(j) ==
    /\ At(j, "enter") /\ Holders(place[j], Last(path[j])) = {}
    /\ Inside(j, Last(path[j]))
    /\ UNCHANGED <<setting, jobHost, disk, bridgeVars, machineVars, place>>

(* btrfs deletes what has the name of a child before it clones the parent. *)
Replaces(i) == backend = "btrfs" /\ Child(i)

(* Whether zfs create, zfs clone, btrfs subvolume or lxc-create can give   *)
(* the image its name.                                                     *)
CanMake(h, i) ==
    /\ disk[h][i] = "absent" \/ Replaces(i)
    /\ Child(i) => There(h, Parent[i])

(* The name is there before its contents.                                  *)
Make(j) ==
    /\ At(j, "make") /\ CanMake(place[j], Last(path[j]))
    /\ disk' = [disk EXCEPT ![place[j]][Last(path[j])] = "partial"]
    /\ Goto(j, "making")
    /\ UNCHANGED <<setting, jobHost, misread, bridgeVars, machineVars, place, path>>

(* The download or the build scripts are over (lxc ignores how they end).  *)
MakeEnds(j) ==
    /\ At(j, "making")
    /\ disk' = [disk EXCEPT ![place[j]][Last(path[j])] = "built"]
    /\ Returns(j)
    /\ UNCHANGED <<setting, jobHost, misread, bridgeVars, machineVars, place>>

(* What a host may have under the name of image i after a failure: what it *)
(* had; what the failed command did all the same; or nothing, since btrfs  *)
(* deletes first, and the VM that builds a child takes its disk with it    *)
(* when a script fails.                                                    *)
Remains(j, h, i) ==
    {disk[h][i]} \union
    IF At(j, "make")
    THEN {d \in {"partial"} : CanMake(h, i)} \union {d \in {"absent"} : Replaces(i)}
    ELSE {"built"} \union {d \in {"absent"} : Child(i)}

(* A command or a build script fails, or no machine answers.               *)
MakeRaises(j) ==
    /\ At(j, "make") \/ At(j, "making")
    /\ LET h == place[j]  i == Last(path[j])
       IN  \E d \in Remains(j, h, i) : disk' = [disk EXCEPT ![h][i] = d]
    /\ Raise(j)
    /\ UNCHANGED <<setting, jobHost, misread, bridgeVars, machineVars, place>>

------------------------------------------------------------------------------
(* The machine.                                                            *)

CanClone(j) == At(j, "clone") /\ There(place[j], VmImage[New(j)])

Clone(j) ==
    /\ CanClone(j)
    /\ machines' = [machines EXCEPT ![place[j]] = @ \union {New(j)}]
    /\ Goto(j, "boot")
    /\ UNCHANGED <<setting, jobHost, images, bridgeVars, noted, left, lost, place, path>>

(* The command fails, or the connection is lost after it was carried out.  *)
CloneRaises(j) ==
    /\ At(j, "clone")
    /\ \/ UNCHANGED <<machines, lost>>
       \/ /\ CanClone(j)
          /\ machines' = [machines EXCEPT ![place[j]] = @ \union {New(j)}]
          /\ lost' = lost \union {New(j)}
    /\ Raise(j)
    /\ UNCHANGED <<setting, jobHost, images, bridgeVars, noted, left, place>>

(* Only now the host knows whose machine it is.                            *)
Booted(j) ==
    /\ At(j, "boot")
    /\ noted' = [noted EXCEPT ![place[j]] = @ \union {New(j)}]
    /\ Goto(j, "idle")
    /\ UNCHANGED <<setting, jobHost, images, bridgeVars, machines, left, lost, place, path>>

(* virsh create or lxc-start fails, or lxc-info never tells an address.    *)
BootRaises(j) ==
    /\ At(j, "boot")
    /\ lost' = lost \union {New(j)}
    /\ Raise(j)
    /\ UNCHANGED <<setting, jobHost, images, bridgeVars, machines, noted, left, place>>

------------------------------------------------------------------------------
(* cleanup.                                                                *)

(* The job is through, or one of its calls has raised.                     *)
Cleanup(j) ==
    /\ At(j, "failed") \/ (At(j, "idle") /\ Cardinality(Got(j)) = NumVms[j])
    /\ LET h == jobHost[j] IN
       /\ jobHost' = [jobHost EXCEPT ![j] = NoHost]
       /\ IF h = NoHost
          THEN Over(j) /\ UNCHANGED <<noted, left>>
          ELSE /\ left' = [left EXCEPT ![j] = noted[h] \intersect Got(j)]
               /\ noted' = [noted EXCEPT ![h] = @ \ Got(j)]
               /\ place' = [place EXCEPT ![j] = h]
               /\ Goto(j, "destroy")
    /\ UNCHANGED <<setting, images, bridgeVars, machines, lost, path>>

(* How "virsh destroy" ends is not looked at: when it failed, btrfs takes  *)
(* the disk from a machine that runs on.                                   *)
Destroy(j, v) ==
    /\ At(j, "destroy") /\ v \in left[j]
    /\ left' = [left EXCEPT ![j] = @ \ {v}]
    /\ \/ machines' = [machines EXCEPT ![place[j]] = @ \ {v}] /\ UNCHANGED lost
       \/ backend = "btrfs" /\ lost' = lost \union {v} /\ UNCHANGED machines
    /\ UNCHANGED <<setting, jobHost, images, bridgeVars, noted, pc, place, path>>

(* The loop ends with the first machine whose destruction raises, whether  *)
(* it was destroyed or not; the bridge of the job is not forgotten.        *)
DestroyRaises(j) ==
    /\ At(j, "destroy")
    /\ \E v \in left[j] :
          machines' \in {machines, [machines EXCEPT ![place[j]] = @ \ {v}]}
    /\ lost' = lost \union left[j]
    /\ left' = [left EXCEPT ![j] = {}]
    /\ Over(j)
    /\ UNCHANGED <<setting, jobHost, images, bridgeVars, noted, path>>

(* virsh takes bridge_lock to forget the bridge, which stays on the host.  *)
CleanupEnds(j) ==
    /\ At(j, "destroy") /\ left[j] = {}
    /\ Virsh => Adding(place[j]) = {}
    /\ jobBridge' = [jobBridge EXCEPT ![j] = {}]
    /\ Over(j)
    /\ UNCHANGED <<setting, jobHost, images, bridges, br, machineVars, path>>

------------------------------------------------------------------------------
HostNext(j) == Call(j) \/ (\E h \in Host : Choose(j, h)) \/ ChooseRaises(j)
BridgeNext(j) == ListBridges(j) \/ AddBridge(j) \/ BridgeRaises(j)
ImageNext(j) == Enter(j) \/ Make(j) \/ MakeEnds(j) \/ MakeRaises(j)
MachineNext(j) == Clone(j) \/ CloneRaises(j) \/ Booted(j) \/ BootRaises(j)
CleanupNext(j) ==
    Cleanup(j) \/ DestroyRaises(j) \/ CleanupEnds(j) \/ (\E v \in Machine : Destroy(j, v))
JobNext(j) ==
    HostNext(j) \/ BridgeNext(j) \/ ImageNext(j) \/ MachineNext(j) \/ CleanupNext(j)

Next == LoadChanges \/ \E j \in Job : JobNext(j)

(* A command ends, well or badly, and the caller goes on.  Nobody counts   *)
(* on a host that fails to answer while one is chosen; one that keeps its  *)
(* room is found.                                                          *)
Goes(j) ==
    Call(j) \/ BridgeNext(j) \/ ImageNext(j) \/ MachineNext(j) \/ CleanupNext(j)
Spec == Init /\ [][Next]_allVars
FairSpec ==
    /\ Spec
    /\ \A j \in Job : WF_allVars(Goes(j))
    /\ \A h \in Host : WF_allVars(\E j \in Job : HasRoom(h) /\ Choose(j, h))

------------------------------------------------------------------------------
(* Properties.                                                             *)

(* What is cloned, for a machine or for a child image, is there (on zfs    *)
(* built to its end; on btrfs and lxc it may be what a failed build has    *)
(* left) and nobody is building it; unless exist has erred about it on     *)
(* that host.                                                              *)
Source(j) ==
    IF At(j, "clone") THEN {VmImage[New(j)]}
    ELSE IF At(j, "make") /\ Child(Last(path[j])) THEN {Parent[Last(path[j])]} ELSE {}
Making(h, i) == {k \in Job : At(k, "making") /\ place[k] = h /\ Last(path[k]) = i}
ClonesWhatIsBuilt ==
    \A j \in Job : \A i \in Source(j) :
        <<place[j], i>> \notin misread => There(place[j], i) /\ Making(place[j], i) = {}

(* The number of a bridge that is about to be added is still free, and no  *)
(* two jobs on a host have one bridge.                                     *)
BridgesPrivate ==
    /\ \A j \in Job : At(j, "adding") => br[j] = bridges[place[j]]
    /\ \A j, k \in Job : j # k /\ place[j] = place[k] /\ place[j] # NoHost =>
                       jobBridge[j] \intersect jobBridge[k] = {}

(* When cleanup is over, the machines that hosts still have of the job are *)
(* ones whose clone, boot or destruction failed (its bridge stays in any   *)
(* case: cleanup forgets the number, and keeps even that when a            *)
(* destruction raises); and a machine that is noted is on the one host     *)
(* where cleanup will look for it.                                         *)
GivenBack ==
    \A j \in Job, h \in Host :
        /\ At(j, "gone") => {v \in machines[h] : v[1] = j} \subseteq lost
        /\ At(j, "gone") => jobBridge[j] = {} \/ \E v \in lost : v[1] = j
        /\ \A v \in noted[h] : v[1] = j => v \in machines[h] /\ jobHost[j] = h

(* Every job gets what it asks for or is told that it cannot, and cleans   *)
(* up, if there is a host that does not stay or become again and again     *)
(* full: a virsh host for lack of memory or for its load, an lxc host with *)
(* images and with containers that nobody will remove.                     *)
Full(h) ==
    IF Virsh THEN h \in tight
    ELSE Cardinality(machines[h] \intersect lost)
           + Cardinality({i \in Image : disk[h][i] # "absent"}) >= MaxContainers
JobsEnd == (\E h \in Host : <>[]~Full(h)) => <>[](\A j \in Job : At(j, "gone"))

==============================================================================
