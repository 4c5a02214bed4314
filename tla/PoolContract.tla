---------------------------- MODULE PoolContract ----------------------------
(***************************************************************************)
(* What a provider promises of the clusters it is asked for, whatever it   *)
(* has to do for it: a request is granted whole or refused, no more than   *)
(* MaxVms servers are held at a time, nobody holds a part of a cluster     *)
(* while another one does, and only what was given back is free again.     *)
(* ClusterPool implements this.                                            *)
(***************************************************************************)
EXTENDS Naturals, FiniteSets

CONSTANTS Request, Server, RequestOf, MaxVms

VARIABLES
    answer,    \* where a request is
    held       \* the servers that count against MaxVms

vars == <<answer, held>>

Answer == {"new", "asked", "granted", "refused", "ending", "over", "broken"}

TypeOK ==
    /\ answer \in [Request -> Answer]
    /\ held \subseteq Server

Init ==
    /\ answer = [r \in Request |-> "new"]
    /\ held = {}

Becomes(r, old, new) ==
    answer[r] = old /\ answer' = [answer EXCEPT ![r] = new]

Ask(r) == Becomes(r, "new", "asked") /\ UNCHANGED held

(* A request takes one server after the other, and nobody else meanwhile.  *)
Take(s) ==
    /\ answer[RequestOf[s]] = "asked" /\ s \notin held
    /\ Cardinality(held) < MaxVms
    /\ \A t \in held : answer[RequestOf[t]] = "asked" => RequestOf[t] = RequestOf[s]
    /\ held' = held \union {s}
    /\ UNCHANGED answer

Grant(r) ==
    /\ Becomes(r, "asked", "granted")
    /\ \A s \in Server : RequestOf[s] = r => s \in held
    /\ UNCHANGED held

(* What a refused request has taken is not promised back.                  *)
Refuse(r) == Becomes(r, "asked", "refused") /\ UNCHANGED held

(* The owner gives the cluster back, and its servers become free.          *)
GiveBack(r) == Becomes(r, "granted", "ending") /\ UNCHANGED held

Free(s) ==
    /\ answer[RequestOf[s]] = "ending" /\ s \in held
    /\ held' = held \ {s}
    /\ UNCHANGED answer

Close(r) ==
    /\ Becomes(r, "ending", "over")
    /\ \A s \in Server : RequestOf[s] = r => s \notin held
    /\ UNCHANGED held

(* The deletion raises.                                                    *)
Break(r) == Becomes(r, "ending", "broken") /\ UNCHANGED held

Next ==
    \/ \E r \in Request : \/ Ask(r) \/ Grant(r) \/ Refuse(r)
                          \/ GiveBack(r) \/ Close(r) \/ Break(r)
    \/ \E s \in Server : Take(s) \/ Free(s)

Spec == Init /\ [][Next]_vars

==============================================================================
