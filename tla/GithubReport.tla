---------------------------- MODULE GithubReport ----------------------------
(***************************************************************************)
(* What GitHub is told of the jobs of a pull request: job_started_cb and   *)
(* job_finished_cb of the Event of rci/services/github/service.py, with    *)
(* Client.post of rci/common/github.py.                                    *)
(*                                                                         *)
(* Each callback hands one post to Root.start_coro, and nobody waits for   *)
(* it: the two posts of a job are independent coroutines, which may arrive *)
(* in either order or not at all.  The engine is that of JobEngine, whose  *)
(* variables and actions this module keeps; it only watches them.          *)
(***************************************************************************)
EXTENDS JobEngine

CONSTANT Followed   \* the jobs whose posts are followed; those of two jobs never meet

ASSUME ReportAssumption == Followed \subseteq Job

VARIABLES
    posts,        \* the statuses of a job that are on their way to GitHub
    shown,        \* the status GitHub shows for a job, "none" before the first
    overtaken     \* auxiliary: the jobs whose last post came before "pending"

reportVars == <<posts, shown, overtaken>>
allVars == <<vars, reportVars>>

State == {"pending"} \union Verdict

ReportTypeOK ==
    /\ posts \in [Job -> SUBSET (State \union JobStatus)]
    /\ shown \in [Job -> State \union JobStatus \union {"none"}]
    /\ overtaken \subseteq Job

ReportInit ==
    /\ Init
    /\ posts = [j \in Job |-> {}]
    /\ shown = [j \in Job |-> "none"]
    /\ overtaken = {}

(* The events that post are those of github.                               *)
Reported == {j \in Followed : EventOf[j] \notin Custom}

------------------------------------------------------------------------------
(* The callback of the base class comes first; what a post says is fixed   *)
(* when the coroutine is made.                                             *)
Post(S, says) ==
    /\ posts' = [j \in Job |-> posts[j] \union (IF j \in S \intersect Reported
                                                THEN {says[j]} ELSE {})]
    /\ UNCHANGED <<shown, overtaken>>

(* Event.run calls job_started_cb for each job.                            *)
Start(e) ==
    /\ EventStart(e)
    /\ Post(JobsOf(e), [j \in Job |-> "pending"])

(* Seeded faults: the status is read before the base class has set it to   *)
(* "error"; nothing is posted when the task raised.                        *)
Collect_Early(e) ==
    /\ EventCollect(e)
    /\ Post(Collected(e), jobStatus)
Collect_Returned(e) ==
    /\ EventCollect(e)
    /\ Post({j \in Collected(e) : jobTask[j] = "returned"}, jobStatus')

(* Event.run calls job_finished_cb for each job it collects.               *)
Collect(e) ==
    /\ EventCollect(e)
    /\ Post(Collected(e), jobStatus')

(* GitHub takes a post: the latest one is what it shows.  A post need not  *)
(* arrive.  The request may raise, which Root.run_coro logs; and GitHub    *)
(* may refuse it, which nobody sees, as 200 > status > 300 is never true.  *)
Arrive(j, state) ==
    /\ state \in posts[j]
    /\ posts' = [posts EXCEPT ![j] = @ \ {state}]
    /\ shown' = [shown EXCEPT ![j] = state]
    /\ overtaken' = IF state # "pending" /\ "pending" \in posts[j]
                    THEN overtaken \union {j} ELSE overtaken
    /\ UNCHANGED vars

(* No other step of the engine calls back.                                 *)
Silent ==
    /\ \/ \E e \in Event : Emit(e) \/ StopEvent(e) \/ EventStartRaises(e) \/ EventDone(e)
       \/ \E j \in Job : JobNext(j)
    /\ UNCHANGED reportVars

ReportNext ==
    \/ Silent
    \/ \E e \in Event : Start(e) \/ Collect(e)
    \/ \E j \in Job, state \in State : Arrive(j, state)

ReportSpec == ReportInit /\ [][ReportNext]_allVars
FairReportSpec == ReportSpec /\ Fairness

------------------------------------------------------------------------------
(* Properties.                                                             *)

(* GitHub is never told a verdict that is not the job's: whatever is shown *)
(* or on its way besides "pending" is the status of a job the event has    *)
(* collected, and that never changes again.                                *)
ReportTruthful ==
    \A j \in Job : \A state \in (posts[j] \union {shown[j]}) \ {"none", "pending"} :
        state = jobStatus[j] /\ cleanup[j] # "none"

(* A job of a pull request that is over has its verdict on GitHub once its *)
(* posts have arrived, unless "pending" was the slower one; and a job the  *)
(* event has not let go of is never said to be over.                       *)
VerdictShown ==
    \A j \in Reported : posts[j] = {} /\ j \notin overtaken =>
        IF cleanup[j] = "none" THEN shown[j] \in {"none", "pending"}
                               ELSE shown[j] = jobStatus[j]

==============================================================================
