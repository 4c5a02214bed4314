------------------------------ MODULE JobEngine ------------------------------
(***************************************************************************)
(* The life of the events, jobs and clusters of the daemon: Root.emit and  *)
(* Root._event_done_cb (rci/root.py), Event.run with its callbacks         *)
(* (rci/event.py), Job.run and Job.cleanup (rci/job.py), and the two kinds *)
(* of event the services emit: the pull requests of                        *)
(* rci/services/github/service.py and the jobs an operator starts from the *)
(* web page, rci/services/monitor/service.py.                              *)
(*                                                                         *)
(* The daemon is one asyncio loop.  A coroutine runs without interruption  *)
(* from one await to the next, so an action of this module is one such     *)
(* section, and the tasks (of events, of jobs, of the shielded             *)
(* _get_cluster, of cleanups) interleave at the awaits only.               *)
(***************************************************************************)
EXTENDS Naturals, FiniteSets

CONSTANTS
    Event,        \* the events the services emit, each of them at most once
    Custom,       \* those an operator starts: they hold their job until endJob
    Job,          \* the Job objects of all the events
    EventOf,      \* Job.event
    NumScripts,   \* how many scripts the job's config lists, over all its vms
    VmName,       \* names of virtual machines
    ClusterVms,   \* the vm names a job's cluster adds to the environment
    Faults,       \* the external calls that may raise
    NoJob         \* nobody has set the environment variable yet

\* An element of Faults: Provider.get_cluster, VM.run_script, Cluster.delete.
FaultKind == {"get_cluster", "run_script", "delete"}

ASSUME EngineAssumption ==
    /\ Custom \subseteq Event
    /\ EventOf \in [Job -> Event]
    /\ NumScripts \in [Job -> Nat]
    /\ ClusterVms \in [Job -> SUBSET VmName]
    /\ Faults \subseteq FaultKind
    /\ NoJob \notin Job

VARIABLES
    logsUrl,      \* does the loaded configuration have core["logs-url"]?
    eventTask,    \* the task of event.run()
    eventStatus,  \* Event.status
    live,         \* the values of Root.task_event_map and eventid_event_map
    taskJobMap,   \* the values of every Event.task_job_map
    jobTask,      \* where the task of job.run() is
    jobStatus,    \* Job.status
    started,      \* how many scripts job.run() has started
    cluster,      \* the cluster of the job, as its provider sees it
    cleanup,      \* the coroutine job.cleanup() handed to Root.start_coro
    stopSet,      \* the custom events whose stop_event is set
    env,          \* whose address RCI_SERVER_<vm> holds in Event.env
    element       \* is the event on the page of a connected browser?

eventVars == <<logsUrl, eventTask, eventStatus, live, taskJobMap>>
jobVars   == <<jobTask, jobStatus, started>>
vars == <<eventVars, jobVars, cluster, cleanup, stopSet, env, element>>

EventTask == {"none", "ready", "waiting", "finished", "failed", "reaped"}
JobTask   == {"none", "created", "booting", "connecting", "executing",
              "stopwait", "returned", "raised"}
Verdict   == {"success", "failure", "error"}
JobStatus == {"queued", "boot", "running"} \union Verdict
Cluster   == {"none", "requested", "held", "refused",
              "deleting", "deleted", "leaked"}
Cleanup   == {"none", "scheduled", "running", "ended"}

TypeOK ==
    /\ logsUrl \in BOOLEAN
    /\ eventTask \in [Event -> EventTask]
    /\ eventStatus \in [Event -> {"pending", "finished"}]
    /\ live \subseteq Event
    /\ taskJobMap \subseteq Job
    /\ jobTask \in [Job -> JobTask]
    /\ jobStatus \in [Job -> JobStatus]
    /\ started \in [Job -> Nat]
    /\ cluster \in [Job -> Cluster]
    /\ cleanup \in [Job -> Cleanup]
    /\ stopSet \subseteq Custom
    /\ env \in [Event -> [VmName -> Job \union {NoJob}]]
    /\ element \in [Event -> BOOLEAN]

Init ==
    /\ logsUrl \in BOOLEAN
    /\ eventTask = [e \in Event |-> "none"]
    /\ eventStatus = [e \in Event |-> "pending"]
    /\ live = {}
    /\ taskJobMap = {}
    /\ jobTask = [j \in Job |-> "none"]
    /\ jobStatus = [j \in Job |-> "queued"]
    /\ started = [j \in Job |-> 0]
    /\ cluster = [j \in Job |-> "none"]
    /\ cleanup = [j \in Job |-> "none"]
    /\ stopSet = {}
    /\ env = [e \in Event |-> [v \in VmName |-> NoJob]]
    /\ element = [e \in Event |-> FALSE]

JobsOf(e) == {j \in Job : EventOf[j] = e}
Ended == {"returned", "raised"}
Done(e) == {j \in taskJobMap \intersect JobsOf(e) : jobTask[j] \in Ended}

------------------------------------------------------------------------------
(* What a service does with cb_task_started, cb_task_updated and           *)
(* cb_task_finished: the monitor broadcasts the event, and the page adds   *)
(* an element for an event it does not show, removes the element of an     *)
(* event it shows when the status is "finished", and else leaves it.       *)

Broadcast(e, status) ==
    element' = [element EXCEPT ![e] = ~@ \/ status # "finished"]

(* Job._update_status: every change of status is broadcast.                *)
UpdateStatus(j, status) ==
    /\ jobStatus' = [jobStatus EXCEPT ![j] = status]
    /\ Broadcast(EventOf[j], eventStatus[EventOf[j]])

------------------------------------------------------------------------------
(* Root.emit: a service hands over a new event.                            *)
Emit(e) ==
    /\ eventTask[e] = "none"
    /\ eventTask' = [eventTask EXCEPT ![e] = "ready"]
    /\ live' = live \union {e}
    /\ Broadcast(e, "pending")
    /\ UNCHANGED <<logsUrl, eventStatus, taskJobMap, jobVars, cluster, cleanup,
                   stopSet, env>>

(* The monitor service's endJob, from the operator who started the event.  *)
StopEvent(e) ==
    /\ e \in Custom \ stopSet
    /\ eventTask[e] # "none"
    /\ stopSet' = stopSet \union {e}
    /\ UNCHANGED <<eventVars, jobVars, cluster, cleanup, env, element>>

(* Event.run up to its first await creates a task for every job.           *)
EventStart(e) ==
    /\ eventTask[e] = "ready"
    /\ logsUrl \/ e \in Custom \/ JobsOf(e) = {}
    /\ jobTask' = [j \in Job |-> IF EventOf[j] = e THEN "created" ELSE jobTask[j]]
    /\ taskJobMap' = taskJobMap \union JobsOf(e)
    /\ IF JobsOf(e) = {}
       THEN /\ eventTask' = [eventTask EXCEPT ![e] = "finished"]
            /\ eventStatus' = [eventStatus EXCEPT ![e] = "finished"]
       ELSE /\ eventTask' = [eventTask EXCEPT ![e] = "waiting"]
            /\ UNCHANGED eventStatus
    /\ UNCHANGED <<logsUrl, live, jobStatus, started, cluster, cleanup, stopSet,
                   env, element>>

(* Seeded fault: all the tasks are created before the first callback.      *)
EventStartRaises_All(e) ==
    /\ eventTask[e] = "ready"
    /\ ~logsUrl /\ e \notin Custom /\ JobsOf(e) # {}
    /\ jobTask' = [j \in Job |-> IF EventOf[j] = e THEN "created" ELSE jobTask[j]]
    /\ taskJobMap' = taskJobMap \union JobsOf(e)
    /\ eventTask' = [eventTask EXCEPT ![e] = "failed"]
    /\ UNCHANGED <<logsUrl, eventStatus, live, jobStatus, started, cluster,
                   cleanup, stopSet, env, element>>

(* Without logs-url, job_started_cb of a github event raises KeyError for  *)
(* the first job: its task is created, the others never are.               *)
EventStartRaises(e) ==
    /\ eventTask[e] = "ready"
    /\ ~logsUrl /\ e \notin Custom
    /\ \E first \in JobsOf(e) :
          /\ jobTask' = [jobTask EXCEPT ![first] = "created"]
          /\ taskJobMap' = taskJobMap \union {first}
    /\ eventTask' = [eventTask EXCEPT ![e] = "failed"]
    /\ UNCHANGED <<logsUrl, eventStatus, live, jobStatus, started, cluster,
                   cleanup, stopSet, env, element>>

(* Seeded faults: the pending jobs are taken with the done ones; the jobs  *)
(* whose task raised are passed over.                                      *)
Collected_Pending(e) == taskJobMap \intersect JobsOf(e)
Collected_Returned(e) == {j \in Done(e) : jobTask[j] = "returned"}

(* The set asyncio.wait returns as done when the event's task resumes.     *)
Collected(e) == Done(e)

(* Seeded fault: no loop around asyncio.wait.                              *)
Left_None(e) == {}

(* What is left in Event.task_job_map once they are popped.                *)
Left(e) == (taskJobMap \intersect JobsOf(e)) \ Collected(e)

(* Event.run resumes from asyncio.wait(FIRST_COMPLETED): every finished    *)
(* job leaves the map, is given the status "error" if its task raised, and *)
(* has its cleanup started; with the last one the event is finished.       *)
EventCollect(e) ==
    LET done   == Collected(e)
        raised == {j \in done : jobTask[j] = "raised"}
    IN  /\ eventTask[e] = "waiting"
        /\ Done(e) # {}
        /\ jobStatus' = [j \in Job |-> IF j \in raised THEN "error" ELSE jobStatus[j]]
        /\ cleanup' = [j \in Job |-> IF j \in done THEN "scheduled" ELSE cleanup[j]]
        /\ taskJobMap' = taskJobMap \ done
        /\ IF Left(e) = {}
           THEN /\ eventTask' = [eventTask EXCEPT ![e] = "finished"]
                /\ eventStatus' = [eventStatus EXCEPT ![e] = "finished"]
           ELSE UNCHANGED <<eventTask, eventStatus>>
        /\ IF raised # {} THEN Broadcast(e, "pending") ELSE UNCHANGED element
        /\ UNCHANGED <<logsUrl, live, jobTask, started, cluster, stopSet, env>>

(* Seeded fault: an event that raised is not forgotten.                    *)
EventDone_FinishedOnly(e) ==
    /\ eventTask[e] = "finished"
    /\ eventTask' = [eventTask EXCEPT ![e] = "reaped"]
    /\ live' = live \ {e}
    /\ Broadcast(e, eventStatus[e])
    /\ UNCHANGED <<logsUrl, eventStatus, taskJobMap, jobVars, cluster, cleanup,
                   stopSet, env>>

(* Root._event_done_cb: the last broadcast, and the event is forgotten.    *)
EventDone(e) ==
    /\ eventTask[e] \in {"finished", "failed"}
    /\ eventTask' = [eventTask EXCEPT ![e] = "reaped"]
    /\ live' = live \ {e}
    /\ Broadcast(e, eventStatus[e])
    /\ UNCHANGED <<logsUrl, eventStatus, taskJobMap, jobVars, cluster, cleanup,
                   stopSet, env>>

------------------------------------------------------------------------------
(* Job.run up to the await of the shielded _get_cluster.                   *)
JobStart(j) ==
    /\ jobTask[j] = "created"
    /\ jobTask' = [jobTask EXCEPT ![j] = "booting"]
    /\ UpdateStatus(j, "boot")
    /\ cluster' = [cluster EXCEPT ![j] = "requested"]
    /\ UNCHANGED <<eventVars, started, cleanup, stopSet, env>>

(* Seeded fault: the environment is the cluster's, not updated from it.    *)
ClusterReady_Replaces(j) ==
    /\ cluster[j] = "requested"
    /\ cluster' = [cluster EXCEPT ![j] = "held"]
    /\ env' = [env EXCEPT ![EventOf[j]] =
                  [v \in VmName |-> IF v \in ClusterVms[j] THEN j ELSE NoJob]]
    /\ UNCHANGED <<eventVars, jobVars, cleanup, stopSet, element>>

(* The task of _get_cluster ends: the provider has answered.  The env dict *)
(* is the event's, shared by all its jobs.                                 *)
ClusterReady(j) ==
    /\ cluster[j] = "requested"
    /\ cluster' = [cluster EXCEPT ![j] = "held"]
    /\ env' = [env EXCEPT ![EventOf[j]] =
                  [v \in VmName |-> IF v \in ClusterVms[j] THEN j ELSE @[v]]]
    /\ UNCHANGED <<eventVars, jobVars, cleanup, stopSet, element>>

ClusterRefused(j) ==
    /\ "get_cluster" \in Faults
    /\ cluster[j] = "requested"
    /\ cluster' = [cluster EXCEPT ![j] = "refused"]
    /\ UNCHANGED <<eventVars, jobVars, cleanup, stopSet, env, element>>

(* job.run() stays in stop_event.wait() only for a custom event nobody has *)
(* stopped yet.                                                            *)
AfterRun(j) == IF EventOf[j] \in Custom \ stopSet THEN "stopwait" ELSE "returned"

(* The two ways the script loop goes on when the previous await is over.   *)
NextScript(j) ==
    /\ started[j] < NumScripts[j]
    /\ started' = [started EXCEPT ![j] = @ + 1]
    /\ jobTask' = [jobTask EXCEPT ![j] = "connecting"]
    /\ UpdateStatus(j, "running")

Succeed(j) ==
    /\ started[j] = NumScripts[j]
    /\ jobTask' = [jobTask EXCEPT ![j] = AfterRun(j)]
    /\ UpdateStatus(j, "success")
    /\ UNCHANGED started

Proceed(j) ==
    /\ NextScript(j) \/ Succeed(j)
    /\ UNCHANGED <<eventVars, cluster, cleanup, stopSet, env>>

JobBooted(j) == jobTask[j] = "booting" /\ cluster[j] = "held" /\ Proceed(j)

(* Seeded fault: job.run() catches the exception and returns.              *)
JobRaises_Caught(j) ==
    /\ jobTask' = [jobTask EXCEPT ![j] = "returned"]
    /\ UNCHANGED <<eventVars, jobStatus, started, cluster, cleanup, stopSet,
                   env, element>>

(* An exception of _get_cluster or run_script passes through job.run().    *)
JobRaises(j) ==
    /\ jobTask' = [jobTask EXCEPT ![j] = "raised"]
    /\ UNCHANGED <<eventVars, jobStatus, started, cluster, cleanup, stopSet,
                   env, element>>

BootFailed(j) == jobTask[j] = "booting" /\ cluster[j] = "refused" /\ JobRaises(j)

(* SSHVM.run_script has its connection and calls SSH.run, which reads the  *)
(* environment into the command.                                           *)
ScriptConnected(j) ==
    /\ jobTask[j] = "connecting"
    /\ jobTask' = [jobTask EXCEPT ![j] = "executing"]
    /\ UNCHANGED <<eventVars, jobStatus, started, cluster, cleanup, stopSet,
                   env, element>>

(* The script exits with status zero, or with another one, or the          *)
(* connection is refused or lost.                                          *)
ScriptOk(j) == jobTask[j] = "executing" /\ Proceed(j)

(* Seeded fault: no return after a failed script.                          *)
ScriptError_GoesOn(j) ==
    /\ jobTask[j] = "executing"
    /\ jobTask' = [jobTask EXCEPT ![j] = IF started[j] < NumScripts[j]
                                         THEN "executing" ELSE AfterRun(j)]
    /\ UpdateStatus(j, "failure")
    /\ UNCHANGED <<eventVars, started, cluster, cleanup, stopSet, env>>

ScriptError(j) ==
    /\ jobTask[j] = "executing"
    /\ jobTask' = [jobTask EXCEPT ![j] = AfterRun(j)]
    /\ UpdateStatus(j, "failure")
    /\ UNCHANGED <<eventVars, started, cluster, cleanup, stopSet, env>>

ScriptRaised(j) ==
    /\ "run_script" \in Faults
    /\ jobTask[j] \in {"connecting", "executing"}
    /\ JobRaises(j)

(* The job of a stopped custom event returns.                              *)
StopWake(j) ==
    /\ jobTask[j] = "stopwait"
    /\ EventOf[j] \in stopSet
    /\ jobTask' = [jobTask EXCEPT ![j] = "returned"]
    /\ UNCHANGED <<eventVars, jobStatus, started, cluster, cleanup, stopSet,
                   env, element>>

------------------------------------------------------------------------------
(* Seeded fault: no cleanup for a job that ended with an error.            *)
CleanupStart_NotError(j) ==
    /\ cleanup[j] = "scheduled"
    /\ IF cluster[j] = "held" /\ jobStatus[j] # "error"
       THEN /\ cluster' = [cluster EXCEPT ![j] = "deleting"]
            /\ cleanup' = [cleanup EXCEPT ![j] = "running"]
       ELSE /\ cleanup' = [cleanup EXCEPT ![j] = "ended"]
            /\ UNCHANGED cluster
    /\ UNCHANGED <<eventVars, jobVars, stopSet, env, element>>

(* Job.cleanup: cluster.delete(), or AttributeError when the job never had *)
(* a cluster; Root.run_coro swallows whatever it raises.                   *)
CleanupStart(j) ==
    /\ cleanup[j] = "scheduled"
    /\ IF cluster[j] = "held"
       THEN /\ cluster' = [cluster EXCEPT ![j] = "deleting"]
            /\ cleanup' = [cleanup EXCEPT ![j] = "running"]
       ELSE /\ cleanup' = [cleanup EXCEPT ![j] = "ended"]
            /\ UNCHANGED cluster
    /\ UNCHANGED <<eventVars, jobVars, stopSet, env, element>>

(* Seeded fault: the end of a deletion is reported like a status.          *)
CleanupEnd_Reports(j) ==
    /\ cleanup[j] = "running"
    /\ cleanup' = [cleanup EXCEPT ![j] = "ended"]
    /\ cluster' = [cluster EXCEPT ![j] = "deleted"]
    /\ Broadcast(EventOf[j], eventStatus[EventOf[j]])
    /\ UNCHANGED <<eventVars, jobVars, stopSet, env>>

CleanupEnd(j) ==
    /\ cleanup[j] = "running"
    /\ cleanup' = [cleanup EXCEPT ![j] = "ended"]
    /\ \/ cluster' = [cluster EXCEPT ![j] = "deleted"]
       \/ "delete" \in Faults /\ cluster' = [cluster EXCEPT ![j] = "leaked"]
    /\ UNCHANGED <<eventVars, jobVars, stopSet, env, element>>

------------------------------------------------------------------------------
EventNext(e) == EventStart(e) \/ EventStartRaises(e) \/ EventCollect(e) \/ EventDone(e)
ClusterNext(j) == ClusterReady(j) \/ ClusterRefused(j)
LoopNext(j) == JobStart(j) \/ JobBooted(j) \/ BootFailed(j) \/ StopWake(j)
ScriptNext(j) == ScriptConnected(j) \/ ScriptOk(j) \/ ScriptError(j) \/ ScriptRaised(j)
CleanupNext(j) == CleanupStart(j) \/ CleanupEnd(j)
JobNext(j) == ClusterNext(j) \/ LoopNext(j) \/ ScriptNext(j) \/ CleanupNext(j)

Next ==
    \/ \E e \in Event : Emit(e) \/ StopEvent(e) \/ EventNext(e)
    \/ \E j \in Job : JobNext(j)

Spec == Init /\ [][Next]_vars

(* The loop runs every task that is ready.  Of the outside it is assumed   *)
(* that the provider answers, a script ends and a deletion ends; the code  *)
(* has no timeout for any of the three.  A job never waits for the loop    *)
(* and for the outside at once, so one condition for each job says both.   *)
(* Nothing is assumed of the services (Emit) or of the operator.           *)
Fairness ==
    /\ \A e \in Event : WF_vars(EventNext(e))
    /\ \A j \in Job : WF_vars(JobNext(j))

FairSpec == Spec /\ Fairness

------------------------------------------------------------------------------
(* Properties.                                                             *)

(* A cluster is not deleted under a running script: Event.run starts       *)
(* job.cleanup() only when the task of job.run() is over.                  *)
CleanupAfterJob ==
    \A j \in Job : cleanup[j] # "none" => jobTask[j] \in Ended

(* Somebody will call job.cleanup(), or has: the event still waits for the *)
(* job, or the coroutine is on its way.                                    *)
Attended(j) ==
    \/ j \in taskJobMap /\ eventTask[EventOf[j]] = "waiting"
    \/ cleanup[j] \in {"scheduled", "running"}

Orphan == {j \in Job : cluster[j] \in {"requested", "held", "deleting"} /\ ~Attended(j)}

(* A cluster that is being built or used has somebody who will release it. *)
(* The only exception is the one job an event has started when its start   *)
(* fails (job_started_cb raises between create_task and the wait loop).    *)
OrphansFromFailedStartOnly ==
    /\ \A j \in Orphan : ~logsUrl /\ eventTask[EventOf[j]] \in {"failed", "reaped"}
    /\ \A i, j \in Orphan : EventOf[i] = EventOf[j] => i = j

(* "finished" is only ever said of an event whose jobs all have a verdict, *)
(* whose job tasks are all over and whose clusters are all on their way    *)
(* back; and an event Root has forgotten is "finished" unless its start    *)
(* failed.                                                                 *)
FinishedMeansAll ==
    \A e \in Event :
        /\ eventStatus[e] = "finished" =>
              \A j \in JobsOf(e) : /\ jobStatus[j] \in Verdict
                                   /\ jobTask[j] \in Ended
                                   /\ cleanup[j] # "none"
        /\ eventTask[e] = "reaped" => eventStatus[e] = "finished" \/ ~logsUrl

(* A verdict is earned: "success" only after every script was run on the   *)
(* job's own cluster, "failure" only after one was run; and when the event *)
(* lets go of the job, "error" stands exactly for a task that raised.      *)
VerdictEarned ==
    \A j \in Job :
        /\ jobStatus[j] = "success" =>
              started[j] = NumScripts[j] /\ cluster[j] \notin {"none", "requested", "refused"}
        /\ jobStatus[j] = "failure" => started[j] > 0
        /\ cleanup[j] # "none" =>
              jobStatus[j] \in Verdict /\ (jobStatus[j] = "error" <=> jobTask[j] = "raised")

(* The page of a connected browser shows every live event, and shows no    *)
(* event after its end, except one whose start failed: that one is never   *)
(* broadcast as "finished".                                                *)
PageFollowsEvents ==
    \A e \in Event :
        /\ e \in live => element[e]
        /\ element[e] => e \in live \/ (eventTask[e] = "reaped" /\ eventStatus[e] = "pending")

(* A verdict, once given, is never revised: it is what is reported.        *)
VerdictStable ==
    [][\A j \in Job : jobStatus[j] \in Verdict => jobStatus'[j] = jobStatus[j]]_vars

(* The RCI_SERVER_<vm> variables a script is given name the machines of    *)
(* the job's own cluster.                                                  *)
EnvironmentIsOwn ==
    [][\A j \in Job : jobTask[j] = "connecting" /\ jobTask'[j] = "executing" =>
          \A v \in ClusterVms[j] : env[EventOf[j]][v] = j]_vars

Released(e) == e \in Custom => e \in stopSet

(* Every event ends, a custom one once its operator stops it: whatever     *)
(* becomes of its jobs, and whatever other events do.  An event is emitted *)
(* once, so it is enough to say that the time comes when none is left.     *)
EventEnds == <>[](\A e \in Event : e \in live => ~Released(e))

(* Every cluster a job was given is given back, or its deletion failed;    *)
(* only the one job of a github event whose start failed may keep its own. *)
ClusterGivenBack ==
    <>[](\A j \in Job : cluster[j] \in {"requested", "held", "deleting"} =>
            \/ ~Released(EventOf[j])
            \/ ~logsUrl /\ EventOf[j] \notin Custom)

------------------------------------------------------------------------------
(* JobEngine implements BuildContract.  A lease lasts from the call of     *)
(* get_cluster to the end of the cleanup; one whose deletion failed is     *)
(* never returned.  An event whose start raised is forgotten by Root, but  *)
(* it is never closed: nobody has heard of it that it is finished.         *)

phaseOf == [e \in Event |->
    CASE eventTask[e] = "none" -> "new"
      [] eventTask[e] = "reaped" /\ eventStatus[e] = "finished" -> "closed"
      [] OTHER -> "open"]
verdictOf == [j \in Job |-> IF jobStatus[j] \in Verdict THEN jobStatus[j] ELSE "none"]
leaseOf == [j \in Job |-> CASE cluster[j] = "none" -> "none"
                            [] cleanup[j] = "ended" /\ cluster[j] \in {"refused", "deleted"} -> "returned"
                            [] OTHER -> "taken"]

Contract == INSTANCE BuildContract
                WITH phase <- phaseOf, verdict <- verdictOf, lease <- leaseOf

(* Every behaviour of the engine is one the contract allows.               *)
ImplementsContract == Contract!Spec

==============================================================================
