--------------------------- MODULE OpenStackClient ---------------------------
(***************************************************************************)
(* The client of the cloud (rci/common/openstack.py): its login, which it  *)
(* repeats before the token expires, and the calls that poll a server      *)
(* until it is ACTIVE or gone.                                             *)
(*                                                                         *)
(* Time is counted in ticks, and only what is left of a delay is kept.  A  *)
(* request is sent and answered in one tick, but the login may take some.  *)
(***************************************************************************)
EXTENDS Naturals

CONSTANTS
    Call,        \* concurrent callers, each with one server at a time
    Lifetime,    \* how long the cloud accepts a token
    RenewDelay,  \* token_renew_delay
    Latency,     \* how long a login takes, at most
    PollDelay,   \* delay of wait_server; delete_server polls each tick
    Retries      \* retries of wait_server

\* 3600 s is the lifetime keystone gives, token_renew_delay is 3300 s.
ASSUME ClientAssumption ==
    /\ {Lifetime, RenewDelay, Latency} \subseteq Nat
    /\ RenewDelay > 0
    /\ RenewDelay + Latency < Lifetime
    /\ {PollDelay, Retries} \subseteq Nat \ {0}

VARIABLES
    login,   \* the chain of logins: one is sent, a timer is set, or it is dead
    due,     \* ticks until the timer fires, or the login must be answered
    left,    \* ticks for which the token in the headers is still accepted
    data,    \* token_data: none, a catalog, or an answer without one
    pc,      \* where each caller is
    sleep,   \* ticks until it polls
    tries,   \* retries of wait_server it has left
    server,  \* its server, in the cloud
    misread  \* history: whose deletion ended on a poll the cloud could not answer

auth == <<login, due, left, data>>
clientVars == <<login, due, left, data, pc, sleep, tries, server, misread>>

CallOver == {"ready", "deleted", "raised"}

\* kept: the cloud has refused the DELETE, or the deletion has failed.
ServerState == {"none", "build", "active", "error", "deleting", "kept", "gone"}

ClientTypeOK ==
    /\ login \in {"sent", "timer", "dead"}
    /\ due \in 0..(RenewDelay + Latency)
    /\ left \in 0..Lifetime
    /\ data \in {"none", "catalog", "error"}
    /\ pc \in [Call -> {"idle", "created", "waiting", "deleting"} \union CallOver]
    /\ sleep \in [Call -> 0..PollDelay]
    /\ tries \in [Call -> 0..Retries]
    /\ server \in [Call -> ServerState]
    /\ misread \subseteq Call

(* A new client has no token and no catalog; Provider.start logs in.       *)
ClientInit ==
    /\ login = "sent"
    /\ due = Latency
    /\ left = 0
    /\ data = "none"
    /\ pc = [k \in Call |-> "idle"]
    /\ sleep = [k \in Call |-> 0]
    /\ tries = [k \in Call |-> 0]
    /\ server = [k \in Call |-> "none"]
    /\ misread = {}

------------------------------------------------------------------------------
(* Seeded fault: the delay is that of the token.                           *)
LoggedIn_AtExpiry ==
    /\ login = "sent"
    /\ data' = "catalog"
    /\ left' = Lifetime
    /\ login' = "timer"
    /\ due' = RenewDelay + Latency
    /\ UNCHANGED <<pc, sleep, tries, server, misread>>

(* The login is answered with a token and a catalog: the headers are       *)
(* changed, and the next login is scheduled.                               *)
LoggedIn ==
    /\ login = "sent"
    /\ data' = "catalog"
    /\ left' = Lifetime
    /\ login' = "timer"
    /\ due' = RenewDelay
    /\ UNCHANGED <<pc, sleep, tries, server, misread>>

(* It raises, or is answered with an error, which has taken the place of   *)
(* the catalog when it is found to have no token.  Nothing is scheduled.   *)
LoginFails ==
    /\ login = "sent"
    /\ data' \in {data, "error"}
    /\ login' = "dead"
    /\ due' = 0
    /\ UNCHANGED <<left, pc, sleep, tries, server, misread>>

(* call_later makes the task of the next login.                            *)
Renew ==
    /\ login = "timer"
    /\ due = 0
    /\ login' = "sent"
    /\ due' = Latency
    /\ UNCHANGED <<left, data, pc, sleep, tries, server, misread>>

------------------------------------------------------------------------------
(* get_endpoint raises KeyError without a catalog.                         *)
Catalog == data = "catalog"
Accepted == left > 0
Started == data # "none"

Moves(k, place, nap, retries) ==
    /\ pc' = [pc EXCEPT ![k] = place]
    /\ sleep' = [sleep EXCEPT ![k] = nap]
    /\ tries' = [tries EXCEPT ![k] = retries]

(* create_server; an answer without a server makes the caller raise.       *)
CreateServer(k) ==
    /\ Started
    /\ pc[k] \in {"idle", "deleted", "raised"}
    /\ \/ /\ Catalog /\ Accepted
          /\ Moves(k, "created", 0, 0)
          /\ server' = [server EXCEPT ![k] = "build"]
       \/ /\ Moves(k, "raised", 0, 0)
          /\ UNCHANGED server
    /\ misread' = misread \ {k}
    /\ UNCHANGED auth

(* wait_server with the ACTIVE status.                                     *)
WaitServer(k) ==
    /\ pc[k] = "created"
    /\ Moves(k, "waiting", PollDelay, Retries)
    /\ UNCHANGED <<auth, server, misread>>

(* Seeded fault: a poll that sees another status is not counted.           *)
PollWait_NotCounted(k) ==
    /\ pc[k] = "waiting" /\ sleep[k] = 0
    /\ \/ Moves(k, "raised", 0, 0)
       \/ /\ Catalog /\ Accepted
          /\ \/ server[k] = "active" /\ Moves(k, "ready", 0, 0)
             \/ server[k] = "build" /\ Moves(k, "waiting", PollDelay, tries[k])
    /\ UNCHANGED <<auth, server, misread>>

(* One round of wait_server.  get_server raises without a catalog and for  *)
(* every answer but 200: a refused token, or the cloud in trouble.  With   *)
(* 200, a server in ERROR raises, and so does the last of the retries.     *)
PollWait(k) ==
    /\ pc[k] = "waiting" /\ sleep[k] = 0
    /\ \/ Moves(k, "raised", 0, 0)
       \/ /\ Catalog /\ Accepted
          /\ \/ server[k] = "active" /\ Moves(k, "ready", 0, 0)
             \/ /\ server[k] = "build" /\ tries[k] > 1
                /\ Moves(k, "waiting", PollDelay, tries[k] - 1)
    /\ UNCHANGED <<auth, server, misread>>

(* delete_server: the status of the answer is not looked at, be it that of *)
(* a refused token or of a refused DELETE.                                 *)
DeleteServer(k) ==
    /\ pc[k] = "ready"
    /\ \/ /\ Catalog /\ Accepted
          /\ Moves(k, "deleting", 1, 0)
          /\ \E s \in {"deleting", "kept"} : server' = [server EXCEPT ![k] = s]
       \/ Catalog /\ ~Accepted /\ Moves(k, "deleting", 1, 0) /\ UNCHANGED server
       \/ ~Catalog /\ Moves(k, "raised", 0, 0) /\ UNCHANGED server
    /\ UNCHANGED <<auth, misread>>

(* Seeded fault: delete_server does not wait.                              *)
PollDelete_Once(k) ==
    /\ pc[k] = "deleting" /\ sleep[k] = 0
    /\ Moves(k, "deleted", 0, 0)
    /\ UNCHANGED <<auth, server, misread>>

(* One round of its loop: every answer but 200 ends it, a refused token    *)
(* and a cloud in trouble like a server that is not found.                 *)
PollDelete(k) ==
    /\ pc[k] = "deleting" /\ sleep[k] = 0
    /\ \/ /\ ~Catalog
          /\ Moves(k, "raised", 0, 0)
          /\ UNCHANGED misread
       \/ /\ Catalog /\ (~Accepted \/ server[k] = "gone")
          /\ Moves(k, "deleted", 0, 0)
          /\ UNCHANGED misread
       \/ /\ Catalog /\ Accepted /\ server[k] # "gone"
          /\ Moves(k, "deleted", 0, 0)
          /\ misread' = misread \union {k}
       \/ /\ Catalog /\ Accepted /\ server[k] # "gone"
          /\ Moves(k, "deleting", 1, 0)
          /\ UNCHANGED misread
    /\ UNCHANGED <<auth, server>>

------------------------------------------------------------------------------
(* The cloud.                                                              *)
ServerChanges(k) ==
    /\ server[k] = "build"
    /\ \E s \in {"active", "error"} : server' = [server EXCEPT ![k] = s]
    /\ UNCHANGED <<auth, pc, sleep, tries, misread>>

(* A deletion the cloud has agreed to succeeds or fails.                   *)
DeletionEnds(k) ==
    /\ server[k] = "deleting"
    /\ \E s \in {"gone", "kept"} : server' = [server EXCEPT ![k] = s]
    /\ UNCHANGED <<auth, pc, sleep, tries, misread>>

(* A tick passes when nothing is due.                                      *)
Tick ==
    /\ login # "dead" => due > 0
    /\ \A k \in Call : pc[k] \in {"waiting", "deleting"} => sleep[k] > 0
    /\ due' = IF due > 0 THEN due - 1 ELSE 0
    /\ left' = IF left > 0 THEN left - 1 ELSE 0
    /\ sleep' = [k \in Call |-> IF sleep[k] > 0 THEN sleep[k] - 1 ELSE 0]
    /\ UNCHANGED <<login, data, pc, tries, server, misread>>

Login == LoggedIn \/ LoginFails
Poll(k) == PollWait(k) \/ PollDelete(k)
Operation(k) == CreateServer(k) \/ WaitServer(k) \/ DeleteServer(k)

ClientNext ==
    \/ Login \/ Renew \/ Tick
    \/ \E k \in Call : Poll(k) \/ Operation(k) \/ ServerChanges(k) \/ DeletionEnds(k)

ClientSpec == ClientInit /\ [][ClientNext]_clientVars

(* Time passes, the loop runs what is due, and the cloud ends a deletion   *)
(* it has agreed to, one way or the other.  A server need not become       *)
(* ACTIVE, and no answer need be an error.                                 *)
ClientFairSpec ==
    /\ ClientSpec
    /\ WF_clientVars(Login) /\ WF_clientVars(Renew) /\ WF_clientVars(Tick)
    /\ \A k \in Call : WF_clientVars(Poll(k)) /\ WF_clientVars(DeletionEnds(k))

------------------------------------------------------------------------------
(* Properties.                                                             *)

(* As long as no login has failed, every request carries a token that the  *)
(* cloud accepts: the next login is answered before the token expires.     *)
TokenAccepted == login # "dead" /\ Started => Catalog /\ Accepted

(* delete_server(wait=True) returns when the server is gone.  It is wrong  *)
(* only when a poll of its own could not be answered by the cloud, or      *)
(* after a login has failed and the token has expired.                     *)
DeletedMeansGone ==
    \A k \in Call : pc[k] = "deleted" =>
        \/ server[k] = "gone" \/ k \in misread
        \/ login = "dead" /\ ~Accepted

(* wait_server comes to an end whatever becomes of the server and of the   *)
(* token.  So does delete_server, unless the cloud keeps a server it was   *)
(* to delete while the logins go on: then it may poll for ever.            *)
KeptForEver(k) == server[k] = "kept" /\ login # "dead"
PollsEnd ==
    \A k \in Call : pc[k] \in {"waiting", "deleting"} ~>
        (pc[k] \in CallOver \/ (pc[k] = "deleting" /\ KeptForEver(k)))

==============================================================================
