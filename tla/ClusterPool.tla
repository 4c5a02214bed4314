----------------------------- MODULE ClusterPool -----------------------------
(***************************************************************************)
(* The OpenStack provider (rci/providers/openstack.py) with the calls of   *)
(* its client it awaits (rci/common/openstack.py): get_cluster builds the  *)
(* clusters one at a time under _get_cluster_lock and takes a slot of      *)
(* _vms_semaphore for every server; delete_cluster gives the slots back.   *)
(*                                                                         *)
(* A request is one call of get_cluster with the delete_cluster that       *)
(* follows it.  The cloud (nova, neutron) is modelled from how the client  *)
(* uses it.  Provider.start has set _ready before any request is made:     *)
(* Root.run starts the providers before the HTTP server.                   *)
(***************************************************************************)
EXTENDS Naturals, FiniteSets, Sequences

CONSTANTS
    Request,      \* the calls of get_cluster
    Server,       \* the servers of all the requested clusters
    RequestOf,    \* the request a server is created for
    Turn,         \* its place in the loop over the vms of its cluster
    Net,          \* the "dynamic" networks of all the requested clusters
    NetsOf,       \* the networks a server has an interface in
    MaxVms,       \* max_vms of the provider's configuration
    Faults,       \* what may go wrong
    NoRequest     \* nobody holds the lock

(* get_cluster may raise at an await, delete_cluster may.  The poll of a   *)
(* server being deleted may be answered with an error: get_server raises   *)
(* for any status but 200, and delete_server takes that for "gone".  A     *)
(* DELETE may be refused, or what it asked for may fail: its status is not *)
(* looked at.                                                              *)
FaultKind == {"build", "delete", "poll", "refuse"}

ASSUME PoolAssumption ==
    /\ IsFiniteSet(Server)
    /\ RequestOf \in [Server -> Request]
    /\ Turn \in [Server -> Nat]
    /\ \A s, t \in Server : RequestOf[s] = RequestOf[t] /\ Turn[s] = Turn[t] => s = t
    /\ NetsOf \in [Server -> SUBSET Net]
    /\ \A s, t \in Server : NetsOf[s] \intersect NetsOf[t] # {} => RequestOf[s] = RequestOf[t]
    /\ \A n \in Net : \E s \in Server : n \in NetsOf[s]
    /\ MaxVms \in Nat
    /\ Faults \subseteq FaultKind
    /\ NoRequest \notin Request

VARIABLES
    phase,     \* where the request is
    lock,      \* who holds _get_cluster_lock
    waiters,   \* who waits for it
    sem,       \* the value of _vms_semaphore
    slots,     \* the servers for which the semaphore was acquired and not released
    server,    \* each server, from its turn in the build loop to its end
    net        \* each network

vars == <<phase, lock, waiters, sem, slots, server, net>>

Phase == {"idle", "queued", "building", "returned", "failed",
          "deleting", "deleted", "broken"}

(* chosen: its turn in the loop; granted: slot taken, POST on its way;     *)
(* attached: in cluster.vms; stopping: DELETE sent; stuck: DELETE sent,    *)
(* and the cloud will not remove it; gone: the cloud has removed it;       *)
(* released: its slot is given back.  Where a misread poll gave the slot   *)
(* back before the server was gone, it is a ghost (still to be removed),   *)
(* undead (it will not be) or late (removed since).                        *)
ServerState == {"none", "chosen", "granted", "booting", "active", "error",
                "attached", "stopping", "stuck", "gone", "released",
                "ghost", "undead", "late"}

(* bare: created, its subnet is not; recorded: in cluster.networks; kept:  *)
(* its DELETE was refused for the server in it; refused: its DELETE was    *)
(* refused for any other reason.  No refusal is looked at.                 *)
NetState == {"none", "bare", "recorded", "deleted", "kept", "refused"}

TypeOK ==
    /\ phase \in [Request -> Phase]
    /\ lock \in Request \union {NoRequest}
    /\ waiters \in Seq(Request)
    /\ sem \in Nat
    /\ slots \subseteq Server
    /\ server \in [Server -> ServerState]
    /\ net \in [Net -> NetState]

Init ==
    /\ phase = [r \in Request |-> "idle"]
    /\ lock = NoRequest
    /\ waiters = <<>>
    /\ sem = MaxVms
    /\ slots = {}
    /\ server = [s \in Server |-> "none"]
    /\ net = [n \in Net |-> "none"]

ServersOf(r) == {s \in Server : RequestOf[s] = r}
NetworksOf(r) == UNION {NetsOf[s] : s \in ServersOf(r)}
Misread(s) == server[s] \in {"ghost", "undead", "late"}
InCloud(s) == server[s] \in {"booting", "active", "error", "attached",
                             "stopping", "stuck", "ghost", "undead"}

------------------------------------------------------------------------------
(* async with _get_cluster_lock: asyncio.Lock grants first come first      *)
(* served.  A waiter that release() has woken is still the first of the    *)
(* queue until it runs, so a newcomer never overtakes it.                  *)

(* Seeded fault: get_cluster without the lock.                             *)
Call_NoLock(r) ==
    /\ phase[r] = "idle"
    /\ phase' = [phase EXCEPT ![r] = "building"]
    /\ UNCHANGED <<lock, waiters, sem, slots, server, net>>

Call(r) ==
    /\ phase[r] = "idle"
    /\ IF lock = NoRequest /\ waiters = <<>>
       THEN /\ lock' = r
            /\ phase' = [phase EXCEPT ![r] = "building"]
            /\ UNCHANGED waiters
       ELSE /\ waiters' = Append(waiters, r)
            /\ phase' = [phase EXCEPT ![r] = "queued"]
            /\ UNCHANGED lock
    /\ UNCHANGED <<sem, slots, server, net>>

Grant ==
    /\ lock = NoRequest
    /\ waiters # <<>>
    /\ lock' = Head(waiters)
    /\ waiters' = Tail(waiters)
    /\ phase' = [phase EXCEPT ![Head(waiters)] = "building"]
    /\ UNCHANGED <<sem, slots, server, net>>

------------------------------------------------------------------------------
(* _get_cluster: the loop over the configured vms.                         *)

Building(s) == phase[RequestOf[s]] = "building"
Created(s) == server[s] \in {"booting", "active", "error", "attached"}

(* The loop comes to a vm when the one before it is created.               *)
Choose(s) ==
    /\ Building(s)
    /\ server[s] = "none"
    /\ \A t \in ServersOf(RequestOf[s]) : Turn[t] < Turn[s] => Created(t)
    /\ server' = [server EXCEPT ![s] = "chosen"]
    /\ UNCHANGED <<phase, lock, waiters, sem, slots, net>>

(* create_network, for the first interface that names it.                  *)
CreateNetwork(n) ==
    /\ net[n] = "none"
    /\ \E s \in Server : /\ Building(s) /\ server[s] = "chosen" /\ n \in NetsOf[s]
                         /\ \A m \in NetsOf[s] : net[m] # "bare"
    /\ net' = [net EXCEPT ![n] = "bare"]
    /\ UNCHANGED <<phase, lock, waiters, sem, slots, server>>

(* create_subnet; only then is the network entered in cluster.networks.    *)
CreateSubnet(n) ==
    /\ net[n] = "bare"
    /\ \E s \in Server : Building(s) /\ server[s] = "chosen" /\ n \in NetsOf[s]
    /\ net' = [net EXCEPT ![n] = "recorded"]
    /\ UNCHANGED <<phase, lock, waiters, sem, slots, server>>

NetworksReady(s) == \A n \in NetsOf[s] : net[n] = "recorded"

(* _create_server waits for a slot of the semaphore, and posts.            *)
AcquireSlot(s) ==
    /\ Building(s)
    /\ server[s] = "chosen"
    /\ NetworksReady(s)
    /\ sem > 0
    /\ sem' = sem - 1
    /\ slots' = slots \union {s}
    /\ server' = [server EXCEPT ![s] = "granted"]
    /\ UNCHANGED <<phase, lock, waiters, net>>

CreateServer(s) ==
    /\ Building(s)
    /\ server[s] = "granted"
    /\ server' = [server EXCEPT ![s] = "booting"]
    /\ UNCHANGED <<phase, lock, waiters, sem, slots, net>>

(* The second loop, over the servers in the order of their creation:       *)
(* wait_server sees the server ACTIVE, its ports are updated, and it       *)
(* enters cluster.vms.                                                     *)
Attach(s) ==
    /\ Building(s)
    /\ \A t \in ServersOf(RequestOf[s]) :
          Created(t) /\ (Turn[t] < Turn[s] => server[t] = "attached")
    /\ server[s] = "active"
    /\ server' = [server EXCEPT ![s] = "attached"]
    /\ UNCHANGED <<phase, lock, waiters, sem, slots, net>>

(* Seeded fault: the cluster is returned when its servers are created.     *)
Return_NoWait(r) ==
    /\ phase[r] = "building"
    /\ \A s \in ServersOf(r) : Created(s)
    /\ phase' = [phase EXCEPT ![r] = "returned"]
    /\ lock' = NoRequest
    /\ UNCHANGED <<waiters, sem, slots, server, net>>

(* get_cluster returns the cluster and leaves the lock.                    *)
Return(r) ==
    /\ phase[r] = "building"
    /\ \A s \in ServersOf(r) : server[s] = "attached"
    /\ phase' = [phase EXCEPT ![r] = "returned"]
    /\ lock' = NoRequest
    /\ UNCHANGED <<waiters, sem, slots, server, net>>

(* The builder is in _vms_semaphore.acquire(), which never raises.         *)
Acquiring(r) == \E s \in ServersOf(r) : server[s] = "chosen" /\ NetworksReady(s)

(* Seeded fault: a handler gives back a slot for every vm of the cluster.  *)
BuildRaises_ReleaseAll(r) ==
    /\ "build" \in Faults
    /\ phase[r] = "building" /\ ~Acquiring(r)
    /\ phase' = [phase EXCEPT ![r] = "failed"]
    /\ lock' = NoRequest
    /\ sem' = sem + Cardinality(ServersOf(r))
    /\ slots' = slots \ ServersOf(r)
    /\ UNCHANGED <<waiters, server, net>>

(* Seeded fault: the lock is released at the end of the build only.        *)
BuildRaises_KeepLock(r) ==
    /\ "build" \in Faults
    /\ phase[r] = "building" /\ ~Acquiring(r)
    /\ phase' = [phase EXCEPT ![r] = "failed"]
    /\ UNCHANGED <<lock, waiters, sem, slots, server, net>>

(* A call of the cloud fails, a server is in ERROR or not ACTIVE after the *)
(* retries of wait_server: the exception leaves get_cluster and the lock,  *)
(* and nothing is undone.  A server whose creation failed may exist.       *)
BuildRaises(r) ==
    /\ "build" \in Faults
    /\ phase[r] = "building" /\ ~Acquiring(r)
    /\ phase' = [phase EXCEPT ![r] = "failed"]
    /\ lock' = NoRequest
    /\ \/ UNCHANGED server
       \/ \E s \in ServersOf(r) : /\ server[s] = "granted"
                                  /\ server' = [server EXCEPT ![s] = "booting"]
    /\ UNCHANGED <<waiters, sem, slots, net>>

------------------------------------------------------------------------------
(* delete_cluster: the servers one after the other, then the networks.     *)

Delete(r) ==
    /\ phase[r] = "returned"
    /\ phase' = [phase EXCEPT ![r] = "deleting"]
    /\ UNCHANGED <<lock, waiters, sem, slots, server, net>>

Deleting(r) == phase[r] = "deleting"

(* Seeded fault: the slot is released before the server is gone.           *)
StopServer_Early(s) ==
    /\ Deleting(RequestOf[s])
    /\ server[s] = "attached"
    /\ server' = [server EXCEPT ![s] = "stopping"]
    /\ sem' = sem + 1
    /\ slots' = slots \ {s}
    /\ UNCHANGED <<phase, lock, waiters, net>>

StopServer(s) ==
    /\ Deleting(RequestOf[s])
    /\ server[s] = "attached"
    /\ \A t \in ServersOf(RequestOf[s]) : server[t] \notin {"stopping", "stuck", "gone"}
    /\ \/ server' = [server EXCEPT ![s] = "stopping"]
       \/ "refuse" \in Faults /\ server' = [server EXCEPT ![s] = "stuck"]
    /\ UNCHANGED <<phase, lock, waiters, sem, slots, net>>

(* delete_server(wait=True) returns when get_server raises: the server is  *)
(* not found.  As long as it is found, it is polled again.                 *)
ReleaseSlot(s) ==
    /\ Deleting(RequestOf[s])
    /\ server[s] = "gone"
    /\ server' = [server EXCEPT ![s] = "released"]
    /\ sem' = sem + 1
    /\ slots' = slots \ {s}
    /\ UNCHANGED <<phase, lock, waiters, net>>

(* The same return, when the poll was answered with another error.         *)
MisreadPoll(s) ==
    /\ "poll" \in Faults
    /\ Deleting(RequestOf[s])
    /\ \/ server[s] = "stopping" /\ server' = [server EXCEPT ![s] = "ghost"]
       \/ server[s] = "stuck" /\ server' = [server EXCEPT ![s] = "undead"]
    /\ sem' = sem + 1
    /\ slots' = slots \ {s}
    /\ UNCHANGED <<phase, lock, waiters, net>>

(* Seeded fault: the networks first.                                       *)
ServersGone_NotAwaited(r) == TRUE

ServersGone(r) == \A s \in ServersOf(r) : server[s] = "released" \/ Misread(s)

(* delete_network: neutron refuses while a server is in the network, and   *)
(* may refuse anyway; the status of its answer is not looked at.           *)
DeleteNetwork(n) ==
    /\ net[n] = "recorded"
    /\ \E r \in Request : Deleting(r) /\ n \in NetworksOf(r) /\ ServersGone(r)
    /\ LET inUse == \E s \in Server : InCloud(s) /\ n \in NetsOf[s]
       IN  \/ inUse /\ net' = [net EXCEPT ![n] = "kept"]
           \/ ~inUse /\ net' = [net EXCEPT ![n] = "deleted"]
           \/ ~inUse /\ "refuse" \in Faults /\ net' = [net EXCEPT ![n] = "refused"]
    /\ UNCHANGED <<phase, lock, waiters, sem, slots, server>>

(* Seeded fault: delete_cluster leaves the networks alone.                 *)
Deleted_NoNetworks(r) ==
    /\ Deleting(r)
    /\ ServersGone(r)
    /\ phase' = [phase EXCEPT ![r] = "deleted"]
    /\ UNCHANGED <<lock, waiters, sem, slots, server, net>>

Deleted(r) ==
    /\ Deleting(r)
    /\ ServersGone(r)
    /\ \A n \in NetworksOf(r) : net[n] \in {"deleted", "kept", "refused"}
    /\ phase' = [phase EXCEPT ![r] = "deleted"]
    /\ UNCHANGED <<lock, waiters, sem, slots, server, net>>

(* A call of the cloud fails: what is left of the cluster stays.           *)
DeleteRaises(r) ==
    /\ "delete" \in Faults
    /\ Deleting(r)
    /\ phase' = [phase EXCEPT ![r] = "broken"]
    /\ UNCHANGED <<lock, waiters, sem, slots, server, net>>

------------------------------------------------------------------------------
(* The cloud: a server becomes ACTIVE or ERROR, a deleted one disappears   *)
(* or does not.                                                            *)

ServerBoots(s) ==
    /\ server[s] = "booting"
    /\ server' = [server EXCEPT ![s] = "active"]
    /\ UNCHANGED <<phase, lock, waiters, sem, slots, net>>

ServerFails(s) ==
    /\ "build" \in Faults
    /\ server[s] = "booting"
    /\ server' = [server EXCEPT ![s] = "error"]
    /\ UNCHANGED <<phase, lock, waiters, sem, slots, net>>

ServerStops(s) ==
    /\ \/ server[s] = "stopping" /\ server' = [server EXCEPT ![s] = "gone"]
       \/ server[s] = "ghost" /\ server' = [server EXCEPT ![s] = "late"]
    /\ UNCHANGED <<phase, lock, waiters, sem, slots, net>>

(* The deletion the cloud agreed to fails.                                 *)
ServerStays(s) ==
    /\ "refuse" \in Faults
    /\ \/ server[s] = "stopping" /\ server' = [server EXCEPT ![s] = "stuck"]
       \/ server[s] = "ghost" /\ server' = [server EXCEPT ![s] = "undead"]
    /\ UNCHANGED <<phase, lock, waiters, sem, slots, net>>

------------------------------------------------------------------------------
BuildServer(s) ==
    Choose(s) \/ AcquireSlot(s) \/ CreateServer(s) \/ Attach(s)
DeleteServer(s) == StopServer(s) \/ ReleaseSlot(s)
NetworkStep(n) == CreateNetwork(n) \/ CreateSubnet(n) \/ DeleteNetwork(n)
Cloud(s) == ServerBoots(s) \/ ServerFails(s) \/ ServerStops(s) \/ ServerStays(s)
Raises(r) == BuildRaises(r) \/ DeleteRaises(r)

Next ==
    \/ Grant
    \/ \E r \in Request : Call(r) \/ Delete(r) \/ Return(r) \/ Deleted(r) \/ Raises(r)
    \/ \E s \in Server : BuildServer(s) \/ DeleteServer(s) \/ MisreadPoll(s) \/ Cloud(s)
    \/ \E n \in Net : NetworkStep(n)

Spec == Init /\ [][Next]_vars

(* A request is one task, which goes on whenever it can; the cloud         *)
(* answers, and the owner of a cluster gives it back                       *)
(* (JobEngine!ClusterGivenBack).  Nobody need call, no poll need be        *)
(* misread, and nothing need raise but wait_server, for a server in ERROR. *)
(* A stuck server stays stuck.                                             *)
InError(r) == \E s \in ServersOf(r) : server[s] = "error"
TaskStep(r) ==
    \/ /\ phase[r] = "building"
       /\ \/ Return(r) \/ (InError(r) /\ BuildRaises(r))
          \/ \E s \in ServersOf(r) : BuildServer(s)
          \/ \E n \in NetworksOf(r) : CreateNetwork(n) \/ CreateSubnet(n)
    \/ /\ phase[r] = "deleting"
       /\ \/ Deleted(r)
          \/ \E s \in ServersOf(r) : DeleteServer(s)
          \/ \E n \in NetworksOf(r) : DeleteNetwork(n)
Fairness ==
    /\ WF_vars(Grant)
    /\ \A r \in Request : WF_vars(TaskStep(r)) /\ WF_vars(Delete(r))
    /\ \A s \in Server : WF_vars(Cloud(s))

FairSpec == Spec /\ Fairness

------------------------------------------------------------------------------
(* Properties.                                                             *)

(* The semaphore counts: its value and the slots in use add up to max_vms. *)
SlotsAddUp == sem + Cardinality(slots) = MaxVms

(* The cloud never has more than max_vms servers of this provider that the *)
(* provider does not believe gone.                                         *)
QuotaRespected ==
    Cardinality({s \in Server : InCloud(s) /\ ~Misread(s)}) <= MaxVms

(* No hold and wait: only one unfinished cluster can be waiting for slots. *)
(* Every other slot belongs to a cluster that is complete or being         *)
(* deleted, or is lost with a request that raised.                         *)
OneUnfinishedCluster ==
    \A s \in slots : RequestOf[s] # lock =>
        \/ phase[RequestOf[s]] \in {"failed", "broken"}
        \/ /\ phase[RequestOf[s]] \in {"returned", "deleting"}
           /\ server[s] \in {"attached", "stopping", "stuck", "gone"}

(* A cluster is handed over whole: all its servers ACTIVE, in the cloud    *)
(* and in cluster.vms, all its networks recorded for the deletion.         *)
ReturnedWhole ==
    \A r \in Request : phase[r] = "returned" =>
        /\ \A s \in ServersOf(r) : server[s] = "attached" /\ s \in slots
        /\ \A n \in NetworksOf(r) : net[n] = "recorded"

(* No server is in the cloud without its networks, and none of them is     *)
(* even asked to go before the server is believed gone.                    *)
NetworksOutliveServers ==
    \A s \in Server : InCloud(s) =>
        \A n \in NetsOf[s] : \/ net[n] = "recorded"
                             \/ net[n] = "kept" /\ Misread(s)

(* After delete_cluster no slot of the cluster is in use, and each thing   *)
(* of it that is left in the cloud has its reason: a server was misread    *)
(* itself, a network was refused itself or has lived through the request   *)
(* for its deletion with a misread server in it.                           *)
DeletedLeavesNothing ==
    \A r \in Request : phase[r] = "deleted" =>
        /\ \A s \in ServersOf(r) : s \notin slots /\ (InCloud(s) => Misread(s))
        /\ \A n \in NetworksOf(r) :
              \/ net[n] \in {"deleted", "refused"}
              \/ net[n] = "kept" /\ \E s \in ServersOf(r) : n \in NetsOf[s] /\ Misread(s)

(* get_cluster comes back for every caller whose cluster fits, with a      *)
(* cluster or an exception.                                                *)
Fits(r) == Cardinality(ServersOf(r)) <= MaxVms
Waits(r) == phase[r] \in {"queued", "building"}
Answered == \A r \in Request : (Waits(r) /\ Fits(r)) ~> ~Waits(r)

(* It does so unless a slot is lost for good, with a request that raised   *)
(* or under a server the cloud will not remove, or a cluster that never    *)
(* fits is being built, under the lock.  Whatever else raises, before the  *)
(* first slot is taken or after the last is given back, the lock is left   *)
(* and the slots of the others come back.                                  *)
SlotLost ==
    \E s \in slots : phase[RequestOf[s]] \in {"failed", "broken"} \/ server[s] = "stuck"
Blocked == \E r \in Request : lock = r /\ ~Fits(r)
AnsweredOrLost == \A r \in Request : Waits(r) ~> (~Waits(r) \/ SlotLost \/ Blocked)

(* What the provider promises, with the lock, the semaphore, the networks  *)
(* and the cloud taken away: a request is asked while it waits or builds,  *)
(* and what it holds are its slots.                                        *)
answerOf == [r \in Request |->
    CASE phase[r] = "idle" -> "new"
      [] phase[r] \in {"queued", "building"} -> "asked"
      [] phase[r] = "returned" -> "granted"
      [] phase[r] = "failed" -> "refused"
      [] phase[r] = "deleting" -> "ending"
      [] phase[r] = "deleted" -> "over"
      [] OTHER -> "broken"]

Contract == INSTANCE PoolContract WITH answer <- answerOf, held <- slots

(* Every behaviour of the provider is one the contract allows.             *)
ImplementsPoolContract == Contract!Spec

==============================================================================
