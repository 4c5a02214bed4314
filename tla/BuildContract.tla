---------------------------- MODULE BuildContract ----------------------------
(***************************************************************************)
(* What the daemon promises of the events its services accept, whatever    *)
(* the order in which tasks, providers and scripts proceed: an event stays *)
(* open until all its jobs have a verdict, a verdict is given once, and    *)
(* the cluster leased for a job is returned once, after the verdict.       *)
(* JobEngine implements this.                                              *)
(***************************************************************************)
CONSTANTS Event, Job, EventOf

VARIABLES
    phase,     \* an event is new, open or closed
    verdict,   \* "none" until the job has one
    lease      \* the cluster of the job: none, taken or returned

vars == <<phase, verdict, lease>>

Verdict == {"success", "failure", "error"}

TypeOK ==
    /\ phase \in [Event -> {"new", "open", "closed"}]
    /\ verdict \in [Job -> Verdict \union {"none"}]
    /\ lease \in [Job -> {"none", "taken", "returned"}]

Init ==
    /\ phase = [e \in Event |-> "new"]
    /\ verdict = [j \in Job |-> "none"]
    /\ lease = [j \in Job |-> "none"]

(* A service hands over an event.                                          *)
Accept(e) ==
    /\ phase[e] = "new"
    /\ phase' = [phase EXCEPT ![e] = "open"]
    /\ UNCHANGED <<verdict, lease>>

(* A cluster is asked for.                                                 *)
Take(j) ==
    /\ phase[EventOf[j]] = "open"
    /\ verdict[j] = "none" /\ lease[j] = "none"
    /\ lease' = [lease EXCEPT ![j] = "taken"]
    /\ UNCHANGED <<phase, verdict>>

(* Some jobs of one event that have a cluster are given their verdicts;    *)
(* the jobs that already have one keep it.                                 *)
Decide(e) ==
    /\ phase[e] = "open"
    /\ verdict' \in [Job -> Verdict \union {"none"}]
    /\ \A j \in Job : verdict'[j] # verdict[j] =>
          EventOf[j] = e /\ verdict[j] = "none" /\ lease[j] = "taken"
    /\ UNCHANGED <<phase, lease>>

(* The event is closed when every job of it has a verdict.                 *)
Close(e) ==
    /\ phase[e] = "open"
    /\ \A j \in Job : EventOf[j] = e => verdict[j] # "none"
    /\ phase' = [phase EXCEPT ![e] = "closed"]
    /\ UNCHANGED <<verdict, lease>>

(* The cluster of a judged job is given back.                              *)
Return(j) ==
    /\ lease[j] = "taken" /\ verdict[j] # "none"
    /\ lease' = [lease EXCEPT ![j] = "returned"]
    /\ UNCHANGED <<phase, verdict>>

Next ==
    \/ \E e \in Event : Accept(e) \/ Decide(e) \/ Close(e)
    \/ \E j \in Job : Take(j) \/ Return(j)

Spec == Init /\ [][Next]_vars

==============================================================================
