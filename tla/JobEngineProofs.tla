--------------------------- MODULE JobEngineProofs ---------------------------
(* Machine-checked theorems about JobEngine and about GithubReport, which  *)
(* watches it: for every set of events and jobs, with and without          *)
(* logs-url, whatever external call fails and whatever becomes of the      *)
(* posts.                                                                  *)
EXTENDS GithubReport, TLAPS

(* What the task of a job says of its status and of its cluster, and what  *)
(* its cleanup says of both.  task_job_map holds exactly the jobs that     *)
(* were started and not yet collected.                                     *)
JobInv(j) ==
    /\ jobTask[j] = "none" => jobStatus[j] = "queued" /\ cluster[j] = "none"
    /\ jobTask[j] = "created" => jobStatus[j] = "queued" /\ cluster[j] = "none"
    /\ jobTask[j] = "booting" =>
          jobStatus[j] = "boot" /\ cluster[j] \in {"requested", "held", "refused"}
    /\ jobTask[j] \in {"connecting", "executing"} =>
          jobStatus[j] = "running" /\ cluster[j] = "held" /\ started[j] > 0
    /\ jobTask[j] = "stopwait" =>
          jobStatus[j] \in {"success", "failure"} /\ cluster[j] = "held"
    /\ jobTask[j] = "returned" =>
          /\ jobStatus[j] \in {"success", "failure"}
          /\ cluster[j] \in {"held", "deleting", "deleted", "leaked"}
    /\ jobTask[j] = "raised" =>
          /\ jobStatus[j] = "error" <=> cleanup[j] # "none"
          /\ jobStatus[j] \in {"boot", "running", "error"}
          /\ cluster[j] \notin {"none", "requested"}
    /\ jobStatus[j] = "success" => started[j] = NumScripts[j]
    /\ jobStatus[j] = "failure" => started[j] > 0
    /\ j \in taskJobMap <=> jobTask[j] # "none" /\ cleanup[j] = "none"
    /\ cleanup[j] # "none" => jobTask[j] \in Ended
    /\ cleanup[j] = "running" <=> cluster[j] = "deleting"
    /\ cleanup[j] = "ended" => cluster[j] \in {"refused", "deleted", "leaked"}
    /\ cluster[j] \in {"deleted", "leaked"} => cleanup[j] = "ended"

(* What the task of an event says of its status, of its jobs and of what   *)
(* the page shows.                                                         *)
EventInv(e) ==
    /\ eventTask[e] \in {"none", "ready"} =>
          eventStatus[e] = "pending" /\ \A j \in JobsOf(e) : jobTask[j] = "none"
    /\ eventTask[e] = "none" => e \notin live /\ ~element[e]
    /\ eventTask[e] \in {"ready", "waiting", "finished", "failed"} =>
          e \in live /\ element[e]
    /\ eventTask[e] = "reaped" =>
          e \notin live /\ (element[e] => eventStatus[e] = "pending")
    /\ eventStatus[e] = "finished" =>
          /\ eventTask[e] \in {"finished", "reaped"}
          /\ \A j \in JobsOf(e) : jobTask[j] # "none" /\ j \notin taskJobMap
    /\ eventTask[e] = "finished" => eventStatus[e] = "finished"
    /\ eventTask[e] = "waiting" => \A j \in JobsOf(e) : jobTask[j] # "none"
    /\ eventTask[e] = "failed" \/ (eventTask[e] = "reaped" /\ eventStatus[e] = "pending") =>
          /\ ~logsUrl
          /\ \A i, j \in JobsOf(e) : jobTask[i] # "none" /\ jobTask[j] # "none" => i = j

IInv ==
    /\ TypeOK
    /\ \A j \in Job : JobInv(j)
    /\ \A e \in Event : EventInv(e)

------------------------------------------------------------------------------
(* Type correctness.                                                       *)
LEMMA TypeInit == Init => TypeOK
  BY EngineAssumption DEF Init, TypeOK, EventTask, JobTask, Verdict, JobStatus, Cluster, Cleanup

LEMMA TypeStep == TypeOK /\ [Next]_vars => TypeOK'
<1> SUFFICES ASSUME TypeOK, [Next]_vars PROVE TypeOK'
  OBVIOUS
<1> USE EngineAssumption DEF TypeOK, eventVars, jobVars, EventTask, JobTask, Verdict, JobStatus, Cluster, Cleanup
<1>1. ASSUME NEW e \in Event, Emit(e) PROVE TypeOK'
  BY <1>1 DEF Emit, Broadcast
<1>2. ASSUME NEW e \in Event, StopEvent(e) PROVE TypeOK'
  BY <1>2 DEF StopEvent
<1>3. ASSUME NEW e \in Event, EventStart(e) PROVE TypeOK'
  BY <1>3 DEF EventStart, JobsOf
<1>4. ASSUME NEW e \in Event, EventStartRaises(e) PROVE TypeOK'
  BY <1>4 DEF EventStartRaises, JobsOf
<1>5. ASSUME NEW e \in Event, EventCollect(e) PROVE TypeOK'
  BY <1>5 DEF EventCollect, Collected, Left, Done, JobsOf, Ended, Broadcast
<1>6. ASSUME NEW e \in Event, EventDone(e) PROVE TypeOK'
  BY <1>6 DEF EventDone, Broadcast
<1>0. ASSUME NEW j \in Job, Proceed(j) PROVE TypeOK'
  <2> USE DEF UpdateStatus, Broadcast
  <2>1. UNCHANGED <<logsUrl, eventTask, eventStatus, live, taskJobMap, cluster, cleanup,
                  stopSet, env>>
    BY <1>0 DEF Proceed
  <2>2. CASE NextScript(j)
    BY <2>1, <2>2 DEF NextScript
  <2>3. CASE Succeed(j)
    BY <2>1, <2>3 DEF Succeed, AfterRun
  <2> QED
    BY <1>0, <2>2, <2>3 DEF Proceed
<1>7. ASSUME NEW j \in Job, JobStart(j) PROVE TypeOK'
  BY <1>7 DEF JobStart, UpdateStatus, Broadcast
<1>8. ASSUME NEW j \in Job, ClusterReady(j) PROVE TypeOK'
  BY <1>8 DEF ClusterReady
<1>9. ASSUME NEW j \in Job, ClusterRefused(j) PROVE TypeOK'
  BY <1>9 DEF ClusterRefused
<1>10. ASSUME NEW j \in Job, JobBooted(j) PROVE TypeOK'
  BY <1>0, <1>10 DEF JobBooted
<1>11. ASSUME NEW j \in Job, BootFailed(j) PROVE TypeOK'
  BY <1>11 DEF BootFailed, JobRaises
<1>12. ASSUME NEW j \in Job, ScriptConnected(j) PROVE TypeOK'
  BY <1>12 DEF ScriptConnected
<1>13. ASSUME NEW j \in Job, ScriptOk(j) PROVE TypeOK'
  BY <1>0, <1>13 DEF ScriptOk
<1>14. ASSUME NEW j \in Job, ScriptError(j) PROVE TypeOK'
  BY <1>14 DEF ScriptError, AfterRun, UpdateStatus, Broadcast
<1>15. ASSUME NEW j \in Job, ScriptRaised(j) PROVE TypeOK'
  BY <1>15 DEF ScriptRaised, JobRaises
<1>16. ASSUME NEW j \in Job, StopWake(j) PROVE TypeOK'
  BY <1>16 DEF StopWake
<1>17. ASSUME NEW j \in Job, CleanupStart(j) PROVE TypeOK'
  BY <1>17 DEF CleanupStart
<1>18. ASSUME NEW j \in Job, CleanupEnd(j) PROVE TypeOK'
  BY <1>18 DEF CleanupEnd
<1>19. CASE UNCHANGED vars
  BY <1>19 DEF vars
<1> QED
  BY <1>1, <1>2, <1>3, <1>4, <1>5, <1>6, <1>7, <1>8, <1>9, <1>10, <1>11, <1>12, <1>13, <1>14, <1>15, <1>16, <1>17, <1>18, <1>19 DEF Next, JobNext, EventNext, ClusterNext, LoopNext, ScriptNext, CleanupNext

THEOREM TypeCorrect == Spec => []TypeOK
  BY TypeInit, TypeStep, PTL DEF Spec

------------------------------------------------------------------------------
(* The inductive invariant.                                                *)
LEMMA InvInit == Init => IInv
  BY TypeInit, EngineAssumption DEF IInv, Init, JobInv, EventInv, JobsOf, Ended

(* What a broadcast does to the page, event by event.                      *)
LEMMA BroadcastEffect ==
  ASSUME TypeOK, NEW f \in Event, NEW status, Broadcast(f, status)
  PROVE  \A e \in Event : element'[e] <=> IF e = f THEN ~element[e] \/ status # "finished"
                                                   ELSE element[e]
  BY Zenon DEF Broadcast, TypeOK

(* A running job's change of status, which leaves every task where it is   *)
(* with respect to "none", keeps what is known of the events: the event of *)
(* the job is on the page already, and it is not finished.                 *)
LEMMA UpdateKeepsEvents ==
  ASSUME IInv, NEW k \in Job, NEW status, NEW pc,
         jobTask[k] \notin Ended, jobTask[k] # "none", pc # "none",
         UpdateStatus(k, status), jobTask' = [jobTask EXCEPT ![k] = pc],
         UNCHANGED <<logsUrl, eventTask, eventStatus, live, taskJobMap>>
  PROVE  (\A e \in Event : EventInv(e))'
<1>1. k \in taskJobMap
  BY DEF IInv, JobInv
<1>2. /\ EventOf[k] \in Event /\ eventStatus[EventOf[k]] = "pending"
      /\ eventTask[EventOf[k]] \notin {"none", "ready"}
  <2>1. EventOf[k] \in Event /\ k \in JobsOf(EventOf[k])
    BY EngineAssumption DEF JobsOf
  <2>2. EventInv(EventOf[k]) /\ eventStatus[EventOf[k]] \in {"pending", "finished"}
    BY <2>1 DEF IInv, TypeOK
  <2> QED
    BY <1>1, <2>1, <2>2 DEF EventInv
<1>3. Broadcast(EventOf[k], "pending")
  BY <1>2 DEF UpdateStatus
<1>4. \A e \in Event : element'[e] <=> IF e = EventOf[k] THEN TRUE ELSE element[e]
  BY <1>2, <1>3, BroadcastEffect DEF IInv
<1>5. \A j \in Job : jobTask'[j] = "none" <=> jobTask[j] = "none"
  BY DEF IInv, TypeOK
<1>6. SUFFICES ASSUME NEW e \in Event PROVE EventInv(e)'
  OBVIOUS
<1>7. EventInv(e)
  BY DEF IInv
<1>8. UNCHANGED <<eventTask[e], eventStatus[e], e \in live>>
  OBVIOUS
<1>9. CASE e = EventOf[k]
  BY <1>2, <1>4, <1>5, <1>7, <1>8, <1>9 DEF EventInv, JobsOf
<1>10. CASE e # EventOf[k]
  BY <1>2, <1>4, <1>5, <1>7, <1>8, <1>10 DEF EventInv, JobsOf
<1> QED
  BY <1>9, <1>10

LEMMA InvStep == IInv /\ [Next]_vars => IInv'
<1> SUFFICES ASSUME IInv, [Next]_vars
             PROVE  (\A j \in Job : JobInv(j))' /\ (\A e \in Event : EventInv(e))'
  BY TypeStep DEF IInv
<1> DEFINE Goal == (\A j \in Job : JobInv(j))' /\ (\A e \in Event : EventInv(e))'
<1> USE EngineAssumption DEF IInv, TypeOK, eventVars, jobVars, EventTask, JobTask, Verdict, JobStatus, Cluster, Cleanup
<1>1. ASSUME NEW f \in Event, Emit(f) PROVE Goal
  <2>1. ASSUME NEW j \in Job PROVE JobInv(j)'
    BY <1>1 DEF Broadcast, Emit, Ended, JobInv
  <2>2. \A e \in Event : element'[e] <=> IF e = f THEN ~element[e] \/ "pending" # "finished"
                                                       ELSE element[e]
    BY <1>1, BroadcastEffect DEF Emit
  <2>3. ASSUME NEW e \in Event PROVE EventInv(e)'
    BY <1>1, <2>2 DEF Emit, EventInv, JobInv, JobsOf
  <2> QED
    BY <2>1, <2>3
<1>2. ASSUME NEW f \in Event, StopEvent(f) PROVE Goal
  <2>1. ASSUME NEW j \in Job PROVE JobInv(j)'
    BY <1>2 DEF Ended, JobInv, StopEvent
  <2>2. ASSUME NEW e \in Event PROVE EventInv(e)'
    BY <1>2 DEF EventInv, JobInv, JobsOf, StopEvent
  <2> QED
    BY <2>1, <2>2
<1>3. ASSUME NEW f \in Event, EventStart(f) PROVE Goal
  <2>1. ASSUME NEW j \in Job PROVE JobInv(j)'
    BY <1>3 DEF Ended, EventInv, EventStart, JobInv, JobsOf
  <2>2. ASSUME NEW e \in Event PROVE EventInv(e)'
    BY <1>3 DEF EventInv, EventStart, JobInv, JobsOf
  <2> QED
    BY <2>1, <2>2
<1>4. ASSUME NEW f \in Event, EventStartRaises(f) PROVE Goal
  <2>1. ASSUME NEW j \in Job PROVE JobInv(j)'
    BY <1>4 DEF Ended, EventInv, EventStartRaises, JobInv, JobsOf
  <2>2. ASSUME NEW e \in Event PROVE EventInv(e)'
    BY <1>4 DEF EventInv, EventStartRaises, JobInv, JobsOf
  <2> QED
    BY <2>1, <2>2
<1>5. ASSUME NEW f \in Event, EventCollect(f) PROVE Goal
  <2>1. ASSUME NEW j \in Job PROVE JobInv(j)'
    BY <1>5 DEF Broadcast, Collected, Done, Ended, EventCollect, JobInv, JobsOf, Left
  <2>2. ASSUME NEW e \in Event PROVE EventInv(e)'
    BY <1>5 DEF Broadcast, Collected, Done, Ended, EventCollect, EventInv, JobInv, JobsOf, Left
  <2> QED
    BY <2>1, <2>2
<1>6. ASSUME NEW f \in Event, EventDone(f) PROVE Goal
  <2>1. ASSUME NEW j \in Job PROVE JobInv(j)'
    BY <1>6 DEF Broadcast, Ended, EventDone, JobInv
  <2>2. \A e \in Event : element'[e] <=> IF e = f THEN ~element[e] \/ eventStatus[f] # "finished"
                                                       ELSE element[e]
    BY <1>6, BroadcastEffect DEF EventDone
  <2>3. ASSUME NEW e \in Event PROVE EventInv(e)'
    BY <1>6, <2>2 DEF EventDone, EventInv, JobInv, JobsOf
  <2> QED
    BY <2>1, <2>3
<1>0. ASSUME NEW k \in Job, Proceed(k), jobTask[k] \in {"booting", "executing"},
             cluster[k] = "held"
      PROVE  Goal
  <2>1. UNCHANGED <<logsUrl, eventTask, eventStatus, live, taskJobMap, cluster, cleanup,
                  stopSet, env>>
    BY <1>0 DEF Proceed
  <2>2. CASE NextScript(k)
    <3>1. ASSUME NEW j \in Job PROVE JobInv(j)'
      BY <1>0, <2>1, <2>2 DEF NextScript, UpdateStatus, JobInv, Ended
    <3>2. (\A e \in Event : EventInv(e))'
      BY <1>0, <2>1, <2>2, UpdateKeepsEvents DEF NextScript, Ended
    <3> QED
      BY <3>1, <3>2
  <2>3. CASE Succeed(k)
    <3>1. ASSUME NEW j \in Job PROVE JobInv(j)'
      BY <1>0, <2>1, <2>3 DEF Succeed, AfterRun, UpdateStatus, JobInv, Ended
    <3>2. (\A e \in Event : EventInv(e))'
      BY <1>0, <2>1, <2>3, UpdateKeepsEvents DEF Succeed, AfterRun, Ended
    <3> QED
      BY <3>1, <3>2
  <2> QED
    BY <1>0, <2>2, <2>3 DEF Proceed
<1>7. ASSUME NEW k \in Job, JobStart(k) PROVE Goal
  <2>1. ASSUME NEW j \in Job PROVE JobInv(j)'
    BY <1>7 DEF Broadcast, Ended, JobInv, JobStart, UpdateStatus
  <2>2. (\A e \in Event : EventInv(e))'
    BY <1>7, UpdateKeepsEvents DEF JobStart, Ended
  <2> QED
    BY <2>1, <2>2
<1>8. ASSUME NEW k \in Job, ClusterReady(k) PROVE Goal
  <2>1. ASSUME NEW j \in Job PROVE JobInv(j)'
    BY <1>8 DEF ClusterReady, Ended, JobInv
  <2>2. ASSUME NEW e \in Event PROVE EventInv(e)'
    BY <1>8 DEF ClusterReady, EventInv, JobInv, JobsOf
  <2> QED
    BY <2>1, <2>2
<1>9. ASSUME NEW k \in Job, ClusterRefused(k) PROVE Goal
  <2>1. ASSUME NEW j \in Job PROVE JobInv(j)'
    BY <1>9 DEF ClusterRefused, Ended, JobInv
  <2>2. ASSUME NEW e \in Event PROVE EventInv(e)'
    BY <1>9 DEF ClusterRefused, EventInv, JobInv, JobsOf
  <2> QED
    BY <2>1, <2>2
<1>10. ASSUME NEW k \in Job, JobBooted(k) PROVE Goal
  BY <1>0, <1>10 DEF JobBooted, JobInv
<1>11. ASSUME NEW k \in Job, BootFailed(k) PROVE Goal
  <2>1. ASSUME NEW j \in Job PROVE JobInv(j)'
    BY <1>11 DEF BootFailed, Ended, JobInv, JobRaises
  <2>2. ASSUME NEW e \in Event PROVE EventInv(e)'
    BY <1>11 DEF BootFailed, EventInv, JobInv, JobRaises, JobsOf
  <2> QED
    BY <2>1, <2>2
<1>12. ASSUME NEW k \in Job, ScriptConnected(k) PROVE Goal
  <2>1. ASSUME NEW j \in Job PROVE JobInv(j)'
    BY <1>12 DEF Ended, JobInv, ScriptConnected
  <2>2. ASSUME NEW e \in Event PROVE EventInv(e)'
    BY <1>12 DEF EventInv, JobInv, JobsOf, ScriptConnected
  <2> QED
    BY <2>1, <2>2
<1>13. ASSUME NEW k \in Job, ScriptOk(k) PROVE Goal
  BY <1>0, <1>13 DEF ScriptOk, JobInv
<1>14. ASSUME NEW k \in Job, ScriptError(k) PROVE Goal
  <2>1. ASSUME NEW j \in Job PROVE JobInv(j)'
    BY <1>14 DEF AfterRun, Broadcast, Ended, JobInv, ScriptError, UpdateStatus
  <2>2. (\A e \in Event : EventInv(e))'
    BY <1>14, UpdateKeepsEvents DEF ScriptError, Ended, AfterRun
  <2> QED
    BY <2>1, <2>2
<1>15. ASSUME NEW k \in Job, ScriptRaised(k) PROVE Goal
  <2>1. ASSUME NEW j \in Job PROVE JobInv(j)'
    BY <1>15 DEF Ended, JobInv, JobRaises, ScriptRaised
  <2>2. ASSUME NEW e \in Event PROVE EventInv(e)'
    BY <1>15 DEF EventInv, JobInv, JobRaises, JobsOf, ScriptRaised
  <2> QED
    BY <2>1, <2>2
<1>16. ASSUME NEW k \in Job, StopWake(k) PROVE Goal
  <2>1. ASSUME NEW j \in Job PROVE JobInv(j)'
    BY <1>16 DEF Ended, JobInv, StopWake
  <2>2. ASSUME NEW e \in Event PROVE EventInv(e)'
    BY <1>16 DEF EventInv, JobInv, JobsOf, StopWake
  <2> QED
    BY <2>1, <2>2
<1>17. ASSUME NEW k \in Job, CleanupStart(k) PROVE Goal
  <2>1. ASSUME NEW j \in Job PROVE JobInv(j)'
    BY <1>17 DEF CleanupStart, Ended, JobInv
  <2>2. ASSUME NEW e \in Event PROVE EventInv(e)'
    BY <1>17 DEF CleanupStart, EventInv, JobInv, JobsOf
  <2> QED
    BY <2>1, <2>2
<1>18. ASSUME NEW k \in Job, CleanupEnd(k) PROVE Goal
  <2>1. ASSUME NEW j \in Job PROVE JobInv(j)'
    BY <1>18 DEF CleanupEnd, Ended, JobInv
  <2>2. ASSUME NEW e \in Event PROVE EventInv(e)'
    BY <1>18 DEF CleanupEnd, EventInv, JobInv, JobsOf
  <2> QED
    BY <2>1, <2>2
<1>19. CASE UNCHANGED vars
  BY <1>19 DEF vars, JobInv, EventInv, JobsOf
<1> QED
  BY <1>1, <1>2, <1>3, <1>4, <1>5, <1>6, <1>7, <1>8, <1>9, <1>10, <1>11, <1>12, <1>13, <1>14, <1>15, <1>16, <1>17, <1>18, <1>19 DEF Next, JobNext, EventNext, ClusterNext, LoopNext, ScriptNext, CleanupNext

------------------------------------------------------------------------------
(* The theorems.                                                           *)
THEOREM InvCorrect == Spec => []IInv
  BY InvInit, InvStep, PTL DEF Spec

(* No cluster is deleted while the job.run() it was built for goes on.     *)
THEOREM CleanupAfterJobCorrect == Spec => []CleanupAfterJob
<1>1. IInv => CleanupAfterJob
  BY DEF IInv, JobInv, CleanupAfterJob
<1> QED
  BY <1>1, InvCorrect, PTL

(* A cluster has somebody who will release it, except that of the single   *)
(* job of an event whose start failed.                                     *)
THEOREM OrphansCorrect == Spec => []OrphansFromFailedStartOnly
<1>1. ASSUME IInv, NEW j \in Orphan
      PROVE  /\ j \in Job /\ jobTask[j] # "none" /\ EventOf[j] \in Event
             /\ j \in JobsOf(EventOf[j])
             /\ \/ eventTask[EventOf[j]] = "failed"
                \/ eventTask[EventOf[j]] = "reaped" /\ eventStatus[EventOf[j]] = "pending"
  <2>1. j \in Job /\ EventOf[j] \in Event /\ j \in JobsOf(EventOf[j])
    BY <1>1, EngineAssumption DEF Orphan, JobsOf
  <2>2. JobInv(j) /\ EventInv(EventOf[j]) /\ cleanup[j] \in Cleanup /\ jobTask[j] \in JobTask
    BY <1>1, <2>1 DEF IInv, TypeOK
  <2>3. jobTask[j] # "none" /\ j \in taskJobMap /\ eventTask[EventOf[j]] # "waiting"
    BY <1>1, <2>2 DEF Orphan, Attended, JobInv, Cleanup
  <2>4. eventTask[EventOf[j]] \in EventTask /\ eventStatus[EventOf[j]] \in {"pending", "finished"}
    BY <1>1, <2>1 DEF IInv, TypeOK
  <2> QED
    BY <2>1, <2>2, <2>3, <2>4 DEF EventInv, EventTask
<1>2. IInv => OrphansFromFailedStartOnly
  BY <1>1 DEF IInv, EventInv, OrphansFromFailedStartOnly
<1> QED
  BY <1>2, InvCorrect, PTL

(* Verdicts are earned, and "error" stands for a task that raised.         *)
THEOREM VerdictEarnedCorrect == Spec => []VerdictEarned
<1>1. IInv => VerdictEarned
  <2> SUFFICES ASSUME IInv, NEW j \in Job
               PROVE  /\ jobStatus[j] = "success" =>
                            /\ started[j] = NumScripts[j]
                            /\ cluster[j] \notin {"none", "requested", "refused"}
                      /\ jobStatus[j] = "failure" => started[j] > 0
                      /\ cleanup[j] # "none" =>
                            /\ jobStatus[j] \in Verdict
                            /\ jobStatus[j] = "error" <=> jobTask[j] = "raised"
    BY DEF VerdictEarned
  <2>1. JobInv(j) /\ jobTask[j] \in JobTask
    BY DEF IInv, TypeOK
  <2> QED
    BY <2>1 DEF JobInv, JobTask, Verdict, Ended
<1> QED
  BY <1>1, InvCorrect, PTL

(* A "finished" event has nothing left to do but its cleanups.             *)
THEOREM FinishedMeansAllCorrect == Spec => []FinishedMeansAll
<1>1. IInv => FinishedMeansAll
  <2> SUFFICES ASSUME IInv, NEW e \in Event
               PROVE  /\ eventStatus[e] = "finished" =>
                            \A j \in JobsOf(e) : /\ jobStatus[j] \in Verdict
                                                 /\ jobTask[j] \in Ended
                                                 /\ cleanup[j] # "none"
                      /\ eventTask[e] = "reaped" => eventStatus[e] = "finished" \/ ~logsUrl
    BY DEF FinishedMeansAll
  <2>1. EventInv(e) /\ eventStatus[e] \in {"pending", "finished"}
    BY DEF IInv, TypeOK
  <2>2. ASSUME eventStatus[e] = "finished", NEW j \in JobsOf(e)
        PROVE  /\ jobStatus[j] \in Verdict
               /\ jobTask[j] \in Ended
               /\ cleanup[j] # "none"
    <3>1. j \in Job /\ JobInv(j)
      BY DEF IInv, JobsOf
    <3>2. jobTask[j] # "none" /\ j \notin taskJobMap
      BY <2>1, <2>2 DEF EventInv
    <3> QED
      BY <3>1, <3>2 DEF JobInv, Verdict, Ended
  <2> QED
    BY <2>1, <2>2 DEF EventInv
<1> QED
  BY <1>1, InvCorrect, PTL

(* The page shows the live events, and none after its end but one whose    *)
(* start failed.                                                           *)
THEOREM PageFollowsEventsCorrect == Spec => []PageFollowsEvents
<1>1. IInv => PageFollowsEvents
  <2> SUFFICES ASSUME IInv, NEW e \in Event
               PROVE  /\ e \in live => element[e]
                      /\ element[e] => \/ e \in live
                                       \/ eventTask[e] = "reaped" /\ eventStatus[e] = "pending"
    BY DEF PageFollowsEvents
  <2>1. EventInv(e) /\ eventTask[e] \in EventTask
    BY DEF IInv, TypeOK
  <2> QED
    BY <2>1 DEF EventInv, EventTask
<1> QED
  BY <1>1, InvCorrect, PTL

(* A verdict is never revised.                                             *)
LEMMA VerdictStep ==
  ASSUME IInv, Next, NEW j \in Job, jobStatus[j] \in Verdict
  PROVE  jobStatus'[j] = jobStatus[j]
<1> USE DEF IInv, TypeOK, eventVars, jobVars
<1>1. JobInv(j) /\ jobTask[j] \in JobTask
  BY DEF IInv, TypeOK
<1>2. jobTask[j] \in {"stopwait", "returned", "raised"}
  BY <1>1 DEF JobInv, JobTask, Verdict
<1>3. ASSUME NEW e \in Event, EventCollect(e) PROVE jobStatus'[j] = jobStatus[j]
  <2>1. j \in Done(e) => jobTask[j] # "raised"
    BY <1>1 DEF Done, JobInv, Verdict
  <2> QED
    BY <1>3, <2>1 DEF EventCollect, Collected
<1>4. ASSUME NEW e \in Event, Emit(e) \/ StopEvent(e) \/ EventNext(e)
      PROVE  jobStatus'[j] = jobStatus[j]
  BY <1>3, <1>4 DEF EventNext, Emit, StopEvent, EventStart, EventStartRaises, EventDone
<1>5. ASSUME NEW k \in Job, ClusterNext(k) \/ CleanupNext(k) PROVE jobStatus'[j] = jobStatus[j]
  BY <1>5 DEF ClusterNext, CleanupNext, ClusterReady, ClusterRefused, CleanupStart, CleanupEnd
<1>6. ASSUME NEW k \in Job, LoopNext(k) PROVE jobStatus'[j] = jobStatus[j]
  BY <1>2, <1>6 DEF LoopNext, JobStart, JobBooted, BootFailed, StopWake, JobRaises, Proceed,
                    NextScript, Succeed, UpdateStatus
<1>7. ASSUME NEW k \in Job, ScriptNext(k) PROVE jobStatus'[j] = jobStatus[j]
  BY <1>2, <1>7 DEF ScriptNext, ScriptConnected, ScriptOk, ScriptError, ScriptRaised, JobRaises,
                    Proceed, NextScript, Succeed, UpdateStatus
<1> QED
  BY <1>4, <1>5, <1>6, <1>7 DEF Next, JobNext

THEOREM VerdictStableCorrect == Spec => VerdictStable
<1>1. IInv /\ [Next]_vars =>
        [\A j \in Job : jobStatus[j] \in Verdict => jobStatus'[j] = jobStatus[j]]_vars
  BY VerdictStep
<1> QED
  BY <1>1, InvCorrect, PTL DEF Spec, VerdictStable

------------------------------------------------------------------------------
(* JobEngine implements BuildContract.                                     *)
LEMMA RefinesInit == Init => Contract!Init
  BY DEF Init, Contract!Init, phaseOf, verdictOf, leaseOf, Verdict

(* The three components of the mapping, point by point.                    *)
LEMMA MappingPoints ==
  /\ \A e \in Event : phaseOf[e] = 
        IF eventTask[e] = "none" THEN "new"
        ELSE IF eventTask[e] = "reaped" /\ eventStatus[e] = "finished" THEN "closed" ELSE "open"
  /\ \A j \in Job : verdictOf[j] = IF jobStatus[j] \in Verdict THEN jobStatus[j] ELSE "none"
  /\ \A j \in Job : leaseOf[j] =
        IF cluster[j] = "none" THEN "none"
        ELSE IF cleanup[j] = "ended" /\ cluster[j] \in {"refused", "deleted"}
             THEN "returned" ELSE "taken"
  BY DEF phaseOf, verdictOf, leaseOf

(* The event of a job that was started and not collected is open, and a    *)
(* job in the middle of job.run() has a lease and no verdict.              *)
LEMMA RunningJob ==
  ASSUME IInv, NEW j \in Job, jobTask[j] # "none", cleanup[j] = "none"
  PROVE  /\ EventOf[j] \in Event
         /\ phaseOf[EventOf[j]] = "open"
         /\ jobTask[j] \notin {"created", "stopwait", "returned"} =>
              verdictOf[j] = "none" /\ leaseOf[j] = "taken"
<1>1. EventOf[j] \in Event /\ j \in JobsOf(EventOf[j])
  BY EngineAssumption DEF JobsOf
<1>2. JobInv(j) /\ EventInv(EventOf[j]) /\ jobTask[j] \in JobTask
  BY <1>1 DEF IInv, TypeOK
<1>3. eventTask[EventOf[j]] \in EventTask /\ eventStatus[EventOf[j]] \in {"pending", "finished"}
  BY <1>1 DEF IInv, TypeOK
<1>4. j \in taskJobMap
  BY <1>2 DEF JobInv
<1>5. eventTask[EventOf[j]] # "none" /\ eventStatus[EventOf[j]] # "finished"
  BY <1>1, <1>2, <1>3, <1>4 DEF EventInv, EventTask
<1>6. jobTask[j] \notin {"created", "stopwait", "returned"} =>
        jobStatus[j] \notin Verdict /\ cluster[j] # "none"
  BY <1>2 DEF JobInv, JobTask, Verdict
<1> QED
  BY <1>1, <1>5, <1>6, MappingPoints

(* One job is given a verdict, or keeps its state: a step of the contract. *)
LEMMA DecideOne ==
  ASSUME IInv, NEW j \in Job, NEW status \in JobStatus,
         jobTask[j] \in {"booting", "connecting", "executing"},
         jobStatus' = [jobStatus EXCEPT ![j] = status],
         UNCHANGED <<eventTask, eventStatus, cluster, cleanup>>
  PROVE  Contract!Decide(EventOf[j])
<1>1. JobInv(j)
  BY DEF IInv
<1>2. /\ EventOf[j] \in Event /\ phaseOf[EventOf[j]] = "open"
      /\ verdictOf[j] = "none" /\ leaseOf[j] = "taken"
  BY <1>1, RunningJob DEF JobInv, Ended
<1>3. UNCHANGED <<phaseOf, leaseOf>>
  BY DEF phaseOf, leaseOf
<1>4. verdictOf' \in [Job -> Contract!Verdict \union {"none"}]
  BY DEF verdictOf, Contract!Verdict, Verdict
<1>5. ASSUME NEW i \in Job, verdictOf'[i] # verdictOf[i] PROVE i = j
  BY <1>5 DEF verdictOf, IInv, TypeOK
<1> QED
  BY <1>2, <1>3, <1>4, <1>5 DEF Contract!Decide

LEMMA RefinesStep ==
  ASSUME IInv, IInv', [Next]_vars
  PROVE  [Contract!Next]_Contract!vars
<1> DEFINE Step == [Contract!Next]_Contract!vars
<1> USE EngineAssumption DEF eventVars, jobVars
<1>0. ASSUME UNCHANGED <<phaseOf, verdictOf, leaseOf>> PROVE Step
  BY <1>0 DEF Contract!vars
<1>1. ASSUME NEW e \in Event, Emit(e) PROVE Step
  <2>1. UNCHANGED <<verdictOf, leaseOf>>
    BY <1>1 DEF Emit, verdictOf, leaseOf
  <2>2. phaseOf[e] = "new" /\ phaseOf' = [phaseOf EXCEPT ![e] = "open"]
    BY <1>1 DEF Emit, phaseOf, IInv, TypeOK
  <2> QED
    BY <2>1, <2>2 DEF Contract!Accept, Contract!Next
<1>2. ASSUME NEW e \in Event, StopEvent(e) \/ EventStart(e) PROVE Step
  <2>1. UNCHANGED <<verdictOf, leaseOf>>
    BY <1>2 DEF StopEvent, EventStart, verdictOf, leaseOf
  <2>2. UNCHANGED phaseOf
    BY <1>2 DEF StopEvent, EventStart, phaseOf, IInv, TypeOK
  <2> QED
    BY <1>0, <2>1, <2>2
<1>3. ASSUME NEW e \in Event, EventStartRaises(e) PROVE Step
  <2>1. UNCHANGED <<verdictOf, leaseOf>>
    BY <1>3 DEF EventStartRaises, verdictOf, leaseOf
  <2>2. UNCHANGED phaseOf
    BY <1>3 DEF EventStartRaises, phaseOf, IInv, TypeOK
  <2> QED
    BY <1>0, <2>1, <2>2
<1>4. ASSUME NEW e \in Event, EventCollect(e) PROVE Step
  <2>1. phaseOf[e] = "open" /\ UNCHANGED phaseOf
    BY <1>4 DEF EventCollect, phaseOf, IInv, TypeOK
  <2>2. ASSUME NEW j \in Job PROVE leaseOf'[j] = leaseOf[j]
    <3>1. j \in Done(e) => cleanup[j] # "ended"
      BY DEF Done, IInv, JobInv
    <3>2. /\ cluster' = cluster
          /\ cleanup'[j] = IF j \in Done(e) THEN "scheduled" ELSE cleanup[j]
      BY <1>4 DEF EventCollect, Collected
    <3> QED
      BY <3>1, <3>2 DEF leaseOf
  <2>3. UNCHANGED leaseOf
    BY <2>2 DEF leaseOf
  <2>4. verdictOf' \in [Job -> Contract!Verdict \union {"none"}]
    BY DEF verdictOf, Contract!Verdict, Verdict
  <2>5. ASSUME NEW j \in Job, verdictOf'[j] # verdictOf[j]
        PROVE  EventOf[j] = e /\ verdictOf[j] = "none" /\ leaseOf[j] = "taken"
    <3>1. j \in Done(e) /\ jobTask[j] = "raised"
      BY <1>4, <2>5 DEF EventCollect, Collected, verdictOf
    <3>2. EventOf[j] = e /\ cleanup[j] = "none"
      BY <3>1 DEF Done, JobsOf, IInv, JobInv
    <3> QED
      BY <3>1, <3>2, RunningJob
  <2> QED
    BY <2>1, <2>3, <2>4, <2>5 DEF Contract!Decide, Contract!Next
<1>5. ASSUME NEW e \in Event, EventDone(e) PROVE Step
  <2>1. UNCHANGED <<verdictOf, leaseOf>>
    BY <1>5 DEF EventDone, verdictOf, leaseOf
  <2>2. EventInv(e) /\ phaseOf[e] = "open"
    BY <1>5 DEF EventDone, phaseOf, IInv
  <2>3. CASE eventStatus[e] = "finished"
    <3>1. phaseOf' = [phaseOf EXCEPT ![e] = "closed"]
      BY <1>5, <2>3 DEF EventDone, phaseOf, IInv, TypeOK
    <3>2. ASSUME NEW j \in Job, EventOf[j] = e PROVE verdictOf[j] # "none"
      <4>1. JobInv(j) /\ jobTask[j] # "none" /\ j \notin taskJobMap
        BY <2>2, <2>3, <3>2 DEF IInv, EventInv, JobsOf
      <4>2. jobStatus[j] \in Verdict
        BY <4>1 DEF JobInv, Ended, Verdict
      <4> QED
        BY <4>2 DEF verdictOf, Verdict
    <3> QED
      BY <2>1, <2>2, <3>1, <3>2 DEF Contract!Close, Contract!Next
  <2>4. CASE eventStatus[e] # "finished"
    <3>1. UNCHANGED phaseOf
      BY <1>5, <2>4 DEF EventDone, phaseOf, IInv, TypeOK
    <3> QED
      BY <1>0, <2>1, <3>1
  <2> QED
    BY <2>3, <2>4
<1>6. ASSUME NEW j \in Job, JobStart(j) PROVE Step
  <2>1. UNCHANGED <<phaseOf, verdictOf>>
    <3>1. JobInv(j) /\ jobStatus[j] = "queued"
      BY <1>6 DEF JobStart, IInv, JobInv
    <3> QED
      BY <1>6, <3>1 DEF JobStart, UpdateStatus, phaseOf, verdictOf, Verdict, IInv, TypeOK
  <2>2. JobInv(j) /\ cleanup[j] = "none" /\ jobStatus[j] = "queued" /\ cluster[j] = "none"
    BY <1>6 DEF JobStart, IInv, JobInv, Ended
  <2>3. leaseOf[j] = "none" /\ leaseOf' = [leaseOf EXCEPT ![j] = "taken"]
    BY <1>6, <2>2 DEF JobStart, leaseOf, IInv, TypeOK
  <2>4. verdictOf[j] = "none" /\ EventOf[j] \in Event /\ phaseOf[EventOf[j]] = "open"
    BY <1>6, <2>2, RunningJob DEF JobStart, verdictOf, Verdict
  <2> QED
    BY <2>1, <2>3, <2>4 DEF Contract!Take, Contract!Next
<1>7. ASSUME NEW j \in Job, ClusterNext(j) PROVE Step
  <2>1. UNCHANGED <<phaseOf, verdictOf>>
    BY <1>7 DEF ClusterNext, ClusterReady, ClusterRefused, phaseOf, verdictOf
  <2>2. JobInv(j) /\ cleanup[j] # "ended" /\ cleanup' = cleanup /\ cluster[j] = "requested"
    BY <1>7 DEF ClusterNext, ClusterReady, ClusterRefused, IInv, JobInv
  <2>3. UNCHANGED leaseOf
    BY <1>7, <2>2 DEF ClusterNext, ClusterReady, ClusterRefused, leaseOf, IInv, TypeOK
  <2> QED
    BY <1>0, <2>1, <2>3
<1>8. ASSUME NEW j \in Job, jobTask[j] \in {"booting", "executing"}, Proceed(j) PROVE Step
  <2>1. \E status \in JobStatus : jobStatus' = [jobStatus EXCEPT ![j] = status]
    BY <1>8 DEF Proceed, NextScript, Succeed, UpdateStatus, JobStatus, Verdict
  <2>2. UNCHANGED <<eventTask, eventStatus, cluster, cleanup>>
    BY <1>8 DEF Proceed
  <2> QED
    BY <1>8, <2>1, <2>2, DecideOne DEF Contract!Next
<1>9. ASSUME NEW j \in Job, ScriptError(j) PROVE Step
  <2>1. /\ jobTask[j] = "executing" /\ "failure" \in JobStatus
        /\ jobStatus' = [jobStatus EXCEPT ![j] = "failure"]
        /\ UNCHANGED <<eventTask, eventStatus, cluster, cleanup>>
    BY <1>9 DEF ScriptError, UpdateStatus, JobStatus, Verdict
  <2> QED
    BY <2>1, DecideOne DEF Contract!Next
<1>10. ASSUME NEW j \in Job,
              BootFailed(j) \/ StopWake(j) \/ ScriptConnected(j) \/ ScriptRaised(j)
       PROVE  Step
  <2>1. UNCHANGED <<eventTask, eventStatus, jobStatus, cluster, cleanup>>
    BY <1>10 DEF BootFailed, StopWake, ScriptConnected, ScriptRaised, JobRaises
  <2> QED
    BY <1>0, <2>1 DEF phaseOf, verdictOf, leaseOf
<1>11. ASSUME NEW j \in Job, CleanupNext(j) PROVE Step
  <2>1. UNCHANGED <<phaseOf, verdictOf>>
    BY <1>11 DEF CleanupNext, CleanupStart, CleanupEnd, phaseOf, verdictOf
  <2>2. JobInv(j) /\ JobInv(j)' /\ cleanup[j] \in {"scheduled", "running"}
    BY <1>11 DEF CleanupNext, CleanupStart, CleanupEnd, IInv
  <2>3. cluster[j] # "none" /\ leaseOf[j] = "taken" /\ verdictOf[j] # "none"
    BY <2>2 DEF JobInv, Ended, leaseOf, verdictOf, Verdict
  <2>4. UNCHANGED leaseOf \/ leaseOf' = [leaseOf EXCEPT ![j] = "returned"]
    <3>1. ASSUME NEW i \in Job, i # j PROVE leaseOf'[i] = leaseOf[i]
      BY <1>11, <3>1 DEF CleanupNext, CleanupStart, CleanupEnd, leaseOf, IInv, TypeOK
    <3>2. leaseOf'[j] \in {"taken", "returned"}
      BY <2>2, <2>3, <1>11 DEF CleanupNext, CleanupStart, CleanupEnd, leaseOf, IInv, TypeOK
    <3> QED
      BY <2>3, <3>1, <3>2 DEF leaseOf
  <2> QED
    BY <1>0, <2>1, <2>3, <2>4 DEF Contract!Return, Contract!Next
<1>12. CASE UNCHANGED vars
  BY <1>0, <1>12 DEF vars, phaseOf, verdictOf, leaseOf
<1> QED
  BY <1>1, <1>2, <1>3, <1>4, <1>5, <1>6, <1>7, <1>8, <1>9, <1>10, <1>11, <1>12
  DEF Next, JobNext, EventNext, LoopNext, ScriptNext, JobBooted, ScriptOk

(* Every behaviour of the engine is one the contract allows: it closes an  *)
(* event only when all its jobs have a verdict, never revises one, and     *)
(* returns a cluster once, after it.                                       *)
THEOREM ImplementsContractCorrect == Spec => ImplementsContract
<1>1. Init => Contract!Init
  BY RefinesInit
<1>2. IInv /\ IInv' /\ [Next]_vars => [Contract!Next]_Contract!vars
  BY RefinesStep
<1> QED
  BY <1>1, <1>2, InvCorrect, PTL DEF Spec, ImplementsContract, Contract!Spec

------------------------------------------------------------------------------
(* The environment of a script.                                            *)

(* No two jobs of an event name a machine alike.                           *)
NamesApart ==
    \A i, j \in Job : EventOf[i] = EventOf[j] /\ i # j => ClusterVms[i] \intersect ClusterVms[j] = {}

EnvInv ==
    \A j \in Job : cluster[j] = "held" => \A v \in ClusterVms[j] : env[EventOf[j]][v] = j

(* Only _get_cluster touches the environment or hands a cluster over.      *)
LEMMA EnvUntouched ==
  ASSUME TypeOK, [Next]_vars, ~ \E k \in Job : ClusterReady(k)
  PROVE  UNCHANGED env /\ \A j \in Job : cluster'[j] = "held" => cluster[j] = "held"
<1> USE DEF TypeOK
<1>1. ASSUME NEW e \in Event, Emit(e) \/ StopEvent(e) \/ EventNext(e)
      PROVE  UNCHANGED <<env, cluster>>
  BY <1>1 DEF Emit, StopEvent, EventNext, EventStart, EventStartRaises, EventCollect, EventDone
<1>2. ASSUME NEW k \in Job, JobNext(k)
      PROVE  UNCHANGED env /\ \A j \in Job : cluster'[j] = "held" => cluster[j] = "held"
  BY <1>2 DEF JobNext, ClusterNext, ClusterRefused, LoopNext, JobStart, JobBooted, BootFailed,
              StopWake, JobRaises, Proceed, ScriptNext, ScriptConnected, ScriptOk, ScriptError,
              ScriptRaised, CleanupNext, CleanupStart, CleanupEnd
<1> QED
  BY <1>1, <1>2 DEF Next, vars

LEMMA EnvInvStep ==
  ASSUME NamesApart, TypeOK, EnvInv, [Next]_vars
  PROVE  EnvInv'
<1> USE DEF EnvInv
<1>1. ASSUME NEW k \in Job, ClusterReady(k) PROVE EnvInv'
  <2> SUFFICES ASSUME NEW j \in Job, cluster'[j] = "held", NEW v \in ClusterVms[j]
               PROVE  env'[EventOf[j]][v] = j
    OBVIOUS
  <2>1. v \in VmName /\ EventOf[j] \in Event /\ EventOf[k] \in Event
    BY EngineAssumption
  <2>2. j # k => env[EventOf[j]][v] = j
    BY <1>1 DEF ClusterReady, TypeOK
  <2>3. j # k /\ EventOf[j] = EventOf[k] => v \notin ClusterVms[k]
    BY DEF NamesApart
  <2>4. env' = [env EXCEPT ![EventOf[k]] =
                   [w \in VmName |-> IF w \in ClusterVms[k] THEN k ELSE env[EventOf[k]][w]]]
    BY <1>1 DEF ClusterReady
  <2> QED
    BY <2>1, <2>2, <2>3, <2>4 DEF TypeOK
<1> QED
  BY <1>1, EnvUntouched

(* Where it does hold that a script is given the addresses of its own      *)
(* machines: in events whose jobs name their machines differently, the     *)
(* only case in which the dict they share cannot mix them up.              *)
THEOREM EnvironmentIsOwnWhenApart ==
  ASSUME NamesApart
  PROVE  Spec => EnvironmentIsOwn
<1>1. Init => EnvInv
  BY DEF Init, EnvInv
<1>2. TypeOK /\ EnvInv /\ [Next]_vars => EnvInv'
  BY EnvInvStep
<1>3. IInv /\ EnvInv /\ [Next]_vars =>
        [\A j \in Job : jobTask[j] = "connecting" /\ jobTask'[j] = "executing" =>
            \A v \in ClusterVms[j] : env[EventOf[j]][v] = j]_vars
  BY DEF IInv, JobInv, EnvInv
<1> QED
  BY <1>1, <1>2, <1>3, TypeCorrect, InvCorrect, PTL DEF Spec, EnvironmentIsOwn

------------------------------------------------------------------------------
(* What GitHub is told.                                                    *)

(* What GitHub shows and what is on its way, before the event has let go   *)
(* of the job and after it.                                                *)
PostInv(j) ==
    /\ cleanup[j] = "none" =>
          /\ posts[j] \subseteq {"pending"}
          /\ shown[j] \in {"none", "pending"}
          /\ j \notin overtaken
    /\ cleanup[j] # "none" =>
          /\ posts[j] \subseteq {"pending", jobStatus[j]}
          /\ shown[j] \in {"none", "pending", jobStatus[j]}
          /\ j \in Reported /\ j \notin overtaken /\ jobStatus[j] \notin posts[j] =>
                shown[j] = jobStatus[j] /\ "pending" \notin posts[j]

ReportInv ==
    /\ posts \in [Job -> SUBSET (State \union JobStatus)]
    /\ shown \in [Job -> State \union JobStatus \union {"none"}]
    /\ \A j \in Job : PostInv(j)

(* The engine does not know that it is watched.                            *)
LEMMA EngineStep == [ReportNext]_allVars => [Next]_vars
  BY DEF ReportNext, allVars, Silent, Start, Collect, Arrive, Next, EventNext

THEOREM ReportImplementsEngine == ReportSpec => Spec
  BY EngineStep, PTL DEF ReportSpec, ReportInit, Spec

(* Only Event.run, when it collects a job, changes cleanup from "none",    *)
(* and no step changes it back; after that the status stays.               *)
LEMMA CollectedStays ==
  ASSUME IInv, [Next]_vars, NEW j \in Job, cleanup[j] # "none"
  PROVE  cleanup'[j] # "none" /\ jobStatus'[j] = jobStatus[j]
<1>1. JobInv(j) /\ jobStatus[j] \in Verdict
  BY DEF IInv, JobInv, Ended, Verdict
<1>2. jobStatus'[j] = jobStatus[j]
  BY <1>1, VerdictStep DEF vars, jobVars
<1>3. cleanup'[j] # "none"
  <2> USE DEF IInv, TypeOK
  <2>1. ASSUME NEW e \in Event, Emit(e) \/ StopEvent(e) \/ EventNext(e)
        PROVE  cleanup'[j] # "none"
    BY <2>1 DEF Emit, StopEvent, EventNext, EventStart, EventStartRaises, EventCollect, EventDone
  <2>2. ASSUME NEW k \in Job, JobNext(k) PROVE cleanup'[j] # "none"
    BY <2>2 DEF JobNext, ClusterNext, ClusterReady, ClusterRefused, LoopNext, JobStart, JobBooted,
                BootFailed, StopWake, JobRaises, Proceed, ScriptNext, ScriptConnected, ScriptOk,
                ScriptError, ScriptRaised, CleanupNext, CleanupStart, CleanupEnd
  <2> QED
    BY <2>1, <2>2 DEF Next, vars
<1> QED
  BY <1>2, <1>3

LEMMA SilentKeeps ==
  ASSUME IInv, Silent, NEW j \in Job, cleanup[j] = "none"
  PROVE  cleanup'[j] = "none"
<1> USE DEF IInv, TypeOK
<1>1. ASSUME NEW e \in Event, Emit(e) \/ StopEvent(e) \/ EventStartRaises(e) \/ EventDone(e)
      PROVE  cleanup'[j] = "none"
  BY <1>1 DEF Emit, StopEvent, EventStartRaises, EventDone
<1>2. ASSUME NEW k \in Job, JobNext(k) PROVE cleanup'[j] = "none"
  BY <1>2 DEF JobNext, ClusterNext, ClusterReady, ClusterRefused, LoopNext, JobStart, JobBooted,
              BootFailed, StopWake, JobRaises, Proceed, ScriptNext, ScriptConnected, ScriptOk,
              ScriptError, ScriptRaised, CleanupNext, CleanupStart, CleanupEnd
<1> QED
  BY <1>1, <1>2 DEF Silent

LEMMA ReportInvStep ==
  ASSUME IInv, IInv', ReportInv, [ReportNext]_allVars
  PROVE  ReportInv'
<1> USE DEF ReportInv
<1>0. IInv /\ [Next]_vars /\ TypeOK /\ TypeOK'
  BY EngineStep DEF IInv
<1>1. CASE Silent
  <2>1. UNCHANGED <<posts, shown, overtaken>>
    BY <1>1 DEF Silent, reportVars
  <2>2. ASSUME NEW j \in Job PROVE PostInv(j)'
    BY <1>0, <1>1, <2>1, CollectedStays, SilentKeeps DEF PostInv
  <2> QED
    BY <2>1, <2>2
<1>2. ASSUME NEW e \in Event, Start(e) PROVE ReportInv'
  <2>1. /\ posts' = [j \in Job |-> posts[j] \union (IF j \in JobsOf(e) \intersect Reported
                                                    THEN {"pending"} ELSE {})]
        /\ UNCHANGED <<shown, overtaken, cleanup, jobStatus>>
    BY <1>2 DEF Start, Post, EventStart, JobsOf
  <2>2. ASSUME NEW j \in JobsOf(e) PROVE cleanup[j] = "none"
    BY <1>2 DEF Start, EventStart, IInv, EventInv, JobInv, JobsOf, Ended
  <2>3. ASSUME NEW j \in Job PROVE PostInv(j)'
    BY <2>1, <2>2 DEF PostInv
  <2> QED
    BY <2>1, <2>3 DEF State
<1>3. ASSUME NEW e \in Event, Collect(e) PROVE ReportInv'
  <2>1. /\ posts' = [j \in Job |-> posts[j] \union (IF j \in Done(e) \intersect Reported
                                                    THEN {jobStatus'[j]} ELSE {})]
        /\ UNCHANGED <<shown, overtaken>>
        /\ cleanup' = [j \in Job |-> IF j \in Done(e) THEN "scheduled" ELSE cleanup[j]]
    BY <1>3 DEF Collect, Post, EventCollect, Collected
  <2>2. ASSUME NEW j \in Done(e) PROVE cleanup[j] = "none"
    BY DEF Done, JobsOf, IInv, JobInv
  <2>3. ASSUME NEW j \in Job PROVE PostInv(j)'
    <3>1. CASE j \in Done(e)
      BY <2>1, <2>2, <3>1 DEF PostInv
    <3>2. CASE j \notin Done(e)
      BY <1>0, <2>1, <3>2, CollectedStays DEF PostInv
    <3> QED
      BY <3>1, <3>2
  <2>4. \A j \in Job : jobStatus'[j] \in JobStatus
    BY <1>0 DEF TypeOK
  <2> QED
    BY <2>1, <2>3, <2>4
<1>4. ASSUME NEW k \in Job, NEW state \in State, Arrive(k, state) PROVE ReportInv'
  <2>1. /\ UNCHANGED <<cleanup, jobStatus>>
        /\ \A j \in Job \ {k} : /\ posts'[j] = posts[j] /\ shown'[j] = shown[j]
                                /\ j \in overtaken' <=> j \in overtaken
        /\ posts'[k] = posts[k] \ {state} /\ shown'[k] = state
        /\ k \in overtaken' <=> k \in overtaken \/ (state # "pending" /\ "pending" \in posts[k])
        /\ state \in posts[k]
    BY <1>4 DEF Arrive, vars, jobVars
  <2>2. ASSUME NEW j \in Job PROVE PostInv(j)'
    <3>1. CASE j # k
      BY <2>1, <3>1 DEF PostInv
    <3>2. CASE j = k
      BY <2>1, <3>2 DEF PostInv
    <3> QED
      BY <3>1, <3>2
  <2>3. /\ posts' \in [Job -> SUBSET (State \union JobStatus)]
        /\ shown' \in [Job -> State \union JobStatus \union {"none"}]
    BY <1>4 DEF Arrive
  <2> QED
    BY <2>2, <2>3
<1>5. CASE UNCHANGED allVars
  BY <1>5 DEF allVars, reportVars, vars, jobVars, PostInv
<1> QED
  BY <1>1, <1>2, <1>3, <1>4, <1>5 DEF ReportNext

LEMMA ReportInvCorrect == ReportSpec => [](IInv /\ ReportInv)
<1>1. ReportInit => ReportInv
  BY DEF ReportInit, Init, ReportInv, PostInv
<1>2. IInv /\ IInv' /\ ReportInv /\ [ReportNext]_allVars => ReportInv'
  BY ReportInvStep
<1> QED
  BY <1>1, <1>2, ReportImplementsEngine, InvCorrect, PTL DEF ReportSpec

(* The posts and what GitHub shows of them are statuses of jobs.           *)
THEOREM ReportTypeCorrect == ReportSpec => []ReportTypeOK
<1>1. ReportInit => ReportTypeOK
  BY DEF ReportInit, ReportTypeOK
<1>2. TypeOK /\ TypeOK' /\ ReportTypeOK /\ [ReportNext]_allVars => ReportTypeOK'
  <2> SUFFICES ASSUME TypeOK, TypeOK', ReportTypeOK, [ReportNext]_allVars
               PROVE  ReportTypeOK'
    OBVIOUS
  <2>1. CASE Silent
    BY <2>1 DEF Silent, reportVars, ReportTypeOK
  <2>2. ASSUME NEW e \in Event, Start(e)  PROVE ReportTypeOK'
    BY <2>2 DEF Start, Post, State, ReportTypeOK
  <2>3. ASSUME NEW e \in Event, Collect(e)  PROVE ReportTypeOK'
    BY <2>3 DEF Collect, Post, TypeOK, ReportTypeOK
  <2>4. ASSUME NEW j \in Job, NEW state \in State, Arrive(j, state)  PROVE ReportTypeOK'
    BY <2>4 DEF Arrive, ReportTypeOK
  <2>5. CASE UNCHANGED allVars
    BY <2>5 DEF allVars, reportVars, ReportTypeOK
  <2> QED
    BY <2>1, <2>2, <2>3, <2>4, <2>5 DEF ReportNext
<1> QED
  BY <1>1, <1>2, ReportImplementsEngine, TypeCorrect, PTL DEF ReportSpec

(* GitHub is never told a verdict that is not the job's.                   *)
THEOREM ReportTruthfulCorrect == ReportSpec => []ReportTruthful
<1>1. ReportInv => ReportTruthful
  BY DEF ReportInv, PostInv, ReportTruthful
<1> QED
  BY <1>1, ReportInvCorrect, PTL

(* When the posts of a collected job have arrived, its verdict is shown,   *)
(* unless they arrived in the wrong order.                                 *)
THEOREM VerdictShownCorrect == ReportSpec => []VerdictShown
<1>1. ReportInv => VerdictShown
  <2> SUFFICES ASSUME ReportInv, NEW j \in Reported, posts[j] = {}, j \notin overtaken
               PROVE  IF cleanup[j] = "none" THEN shown[j] \in {"none", "pending"}
                                             ELSE shown[j] = jobStatus[j]
    BY DEF VerdictShown
  <2>1. j \in Job /\ PostInv(j)
    BY ReportAssumption DEF ReportInv, Reported
  <2> QED
    BY <2>1 DEF PostInv
<1> QED
  BY <1>1, ReportInvCorrect, PTL

==============================================================================
