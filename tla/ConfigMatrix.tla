----------------------------- MODULE ConfigMatrix -----------------------------
(***************************************************************************)
(* Config of rci/config.py: load with its matrix and its validation, and   *)
(* get_jobs.                                                               *)
(*                                                                         *)
(* A file has jobs, each with the provider, cluster, machine and script it *)
(* names (one of each: load() checks any others the same way), and         *)
(* matrices, each with its projects and, per event type, the jobs it       *)
(* lists.                                                                  *)
(***************************************************************************)
EXTENDS Naturals, Sequences, SequencesExt, FiniteSets

CONSTANTS
    Project,            \* the repositories
    Job,                \* the names of jobs
    Provider, Cluster, Machine, Script,
    Clusters,           \* Clusters[p][c]: the machines of a cluster of a provider
    Scripts,            \* the scripts a file defines
    Files               \* the files that may be loaded

EventTypes == {"cr", "push", "cr-closed"}

JobEntry == [provider : Provider, cluster : Cluster, machine : Machine, script : Script]

Matrix == [projects : Seq(Project), lists : [EventTypes -> Seq(Job)]]

\* Jobs and matrices as they are written: any may name what does not exist.
IsFile(f) ==
    /\ DOMAIN f = {"jobs", "matrices"}
    /\ DOMAIN f.jobs \subseteq Job
    /\ \A j \in DOMAIN f.jobs : f.jobs[j] \in JobEntry
    /\ f.matrices \in Seq(Matrix)

ASSUME ConfigAssumption ==
    /\ Scripts \subseteq Script
    /\ DOMAIN Clusters \subseteq Provider
    /\ \A p \in DOMAIN Clusters :
          /\ DOMAIN Clusters[p] \subseteq Cluster
          /\ \A c \in DOMAIN Clusters[p] : Clusters[p][c] \subseteq Machine
    /\ \A f \in Files : IsFile(f)

VARIABLES
    file,        \* the file
    config,      \* "none", "refused" (ConfigError) or "loaded"
    jobs,        \* _project_jobs: the jobs of a project and an event type
    configured   \* the keys of _project_jobs

configVars == <<file, config, jobs, configured>>

ConfigTypeOK ==
    /\ file \in Files
    /\ config \in {"none", "refused", "loaded"}
    /\ jobs \in [Project -> [EventTypes -> Seq(Job)]]
    /\ configured \subseteq Project

\* A new Config object.
Empty ==
    /\ config = "none"
    /\ jobs = [p \in Project |-> [t \in EventTypes |-> <<>>]]
    /\ configured = {}

ConfigInit == file \in Files /\ Empty

------------------------------------------------------------------------------
\* The places of x in a sequence.
Places(s, x) == {k \in DOMAIN s : s[k] = x}

(* The types load() looks for in a matrix.                                 *)
LoadedTypes == {"cr", "push"}

(* Seeded fault: a matrix replaces what another one said of the project.   *)
Expanded_Last(p, t) ==
    LET listed == {i \in DOMAIN file.matrices : p \in ToSet(file.matrices[i].projects)}
    IN  IF t \notin LoadedTypes \/ listed = {} THEN <<>>
        ELSE file.matrices[CHOOSE i \in listed : \A k \in listed : k <= i].lists[t]

(* What the loops over matrices, projects and types append.                *)
Expanded(p, t) ==
    LET Times(ps) == Cardinality(Places(ps, p))
        Listed(m) == FlattenSeq([k \in 1..Times(m.projects) |-> m.lists[t]])
    IN  IF t \notin LoadedTypes THEN <<>>
        ELSE FlattenSeq([i \in DOMAIN file.matrices |-> Listed(file.matrices[i])])

(* The projects the expansion enters into _project_jobs.                   *)
Entered ==
    {p \in Project : \E t \in LoadedTypes : Expanded(p, t) # <<>>}

UnknownJob ==
    \E p \in Project, t \in LoadedTypes : ~(ToSet(Expanded(p, t)) \subseteq DOMAIN file.jobs)

(* Seeded fault: the machines are looked up in the wrong place.            *)
Valid_AnyMachine(entry) ==
    /\ entry.provider \in DOMAIN Clusters
    /\ entry.cluster \in DOMAIN Clusters[entry.provider]
    /\ \E c \in DOMAIN Clusters[entry.provider] : entry.machine \in Clusters[entry.provider][c]
    /\ entry.script \in Scripts

(* The validation of a job.                                                *)
Valid(entry) ==
    /\ entry.provider \in DOMAIN Clusters
    /\ entry.cluster \in DOMAIN Clusters[entry.provider]
    /\ entry.machine \in Clusters[entry.provider][entry.cluster]
    /\ entry.script \in Scripts

(* Config.load.                                                            *)
Load ==
    /\ config = "none"
    /\ IF UnknownJob \/ \E j \in DOMAIN file.jobs : ~Valid(file.jobs[j])
       THEN config' = "refused" /\ UNCHANGED <<jobs, configured>>
       ELSE /\ config' = "loaded"
            /\ jobs' = [p \in Project |-> [t \in EventTypes |-> Expanded(p, t)]]
            /\ configured' = Entered
    /\ UNCHANGED file

(* get_jobs: reading _project_jobs, a defaultdict, enters the project.     *)
GetJobs(p) ==
    /\ configured' = configured \union {p}
    /\ UNCHANGED <<file, config, jobs>>

(* What a file says: the matrices that list job j for project p and type t *)
(* with the places in their projects and in their lists that name them.    *)
Mentions(p, t, j) ==
    UNION {{i} \X Places(file.matrices[i].projects, p)
               \X Places(file.matrices[i].lists[t], j) : i \in DOMAIN file.matrices}

==============================================================================
