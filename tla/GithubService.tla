---------------------------- MODULE GithubService ----------------------------
(***************************************************************************)
(* The github service (rci/services/github/service.py): the webhook, which *)
(* makes an event of a pull request when the configuration has jobs for it *)
(* (ConfigMatrix) and the owner of the project has signed in               *)
(* (GithubSignIn).                                                         *)
(***************************************************************************)
EXTENDS ConfigMatrix, GithubSignIn

CONSTANTS
    Owner,       \* Owner[p]: the user or organisation that owns project p
    OrgsStored   \* the organisations with a stored token: nothing adds one,
                 \* as _http_add_org_webhook raises for want of self.url

Action == {"opened", "reopened", "synchronize", "closed", "labeled"}

ASSUME OwnerAssumption == DOMAIN Owner = Project

VARIABLE hook    \* the last webhook, and the jobs of the event it emitted

vars == <<configVars, signInVars, hook>>

NoHook == [project |-> "none", type |-> "none", jobs |-> <<>>]
Hook == [project : Project, type : EventTypes, jobs : Seq(Job)]

TypeOK == ConfigTypeOK /\ SignInTypeOK /\ hook \in {NoHook} \union Hook

Init == ConfigInit /\ SignInInit /\ hook = NoHook

------------------------------------------------------------------------------
Start == Load /\ UNCHANGED <<signInVars, hook>>

(* The lookup of the owner's token raises when there is none.              *)
HasToken(owner) ==
    \/ owner \in OrgsStored
    \/ owner \in User /\ users[owner] # None

(* Event.__init__: the event of a webhook with its jobs.                   *)
Emit(p, t) ==
    /\ hook' = [project |-> p, type |-> t, jobs |-> jobs[p][t]]
    /\ GetJobs(p)
    /\ UNCHANGED signInVars

(* _webhook_pull_request; other actions are skipped.                       *)
PullRequest(p, action) ==
    /\ config = "loaded"
    /\ HasToken(Owner[p])
    /\ \/ action \in {"opened", "reopened", "synchronize"} /\ Emit(p, "cr")
       \/ action = "closed" /\ Emit(p, "cr-closed")

(* _webhook_push prints its data: the jobs of a push are not asked for.    *)
Push(p) ==
    /\ config = "loaded"
    /\ hook' = [project |-> p, type |-> "push", jobs |-> <<>>]
    /\ UNCHANGED <<configVars, signInVars>>

SignIn == config = "loaded" /\ SignInStep /\ UNCHANGED <<configVars, hook>>

(* The daemon is started again, or reloads a file that is the same.        *)
Restart ==
    /\ config = "loaded"
    /\ config' = "none"
    /\ jobs' = [p \in Project |-> [t \in EventTypes |-> <<>>]]
    /\ configured' = {}
    /\ hook' = NoHook
    /\ UNCHANGED file
    /\ ServiceRestarts

Next ==
    \/ Start \/ SignIn \/ Restart
    \/ \E p \in Project : \/ Push(p)
                          \/ \E action \in Action : PullRequest(p, action)

Spec == Init /\ [][Next]_vars

------------------------------------------------------------------------------
(* Properties.                                                             *)

(* A pull request that is opened, reopened or updated starts each job as   *)
(* often as the matrices mention it for the project, and no other.         *)
ChangeRequestServed ==
    hook.type = "cr" =>
        \A j \in Job : Cardinality(Places(hook.jobs, j))
                         = Cardinality(Mentions(hook.project, "cr", j))

(* Every job an event starts can be run: its provider has its cluster, the *)
(* cluster its machine, and its script is defined.                         *)
JobsRunnable ==
    \A i \in DOMAIN hook.jobs :
        LET job == file.jobs[hook.jobs[i]]
        IN  /\ hook.jobs[i] \in DOMAIN file.jobs
            /\ job.provider \in DOMAIN Clusters
            /\ job.cluster \in DOMAIN Clusters[job.provider]
            /\ job.machine \in Clusters[job.provider][job.cluster]
            /\ job.script \in Scripts

==============================================================================
