----------------------------- MODULE ConsoleView -----------------------------
(***************************************************************************)
(* The console of a job on the page of the monitor: monitor.html asks for  *)
(* it with connectJob, gives it up with disconnectJob, and the handler of  *)
(* the WebSocket (rci/services/monitor/service.py) adds callbacks to       *)
(* Job.console_callbacks and discards them.                                *)
(*                                                                         *)
(* Requests and replies are under way for some time, in order.  The page   *)
(* connects again when its connection is lost, and keeps what it showed.   *)
(***************************************************************************)
EXTENDS Naturals, Sequences

CONSTANTS
    Job,         \* the jobs, each of an event of its own
    NoJob,       \* connectedTaskJob === null, and a hash that names no job
    Faults,      \* what may go wrong
    MaxVisits,   \* bound: how often the page connects
    MaxMessages  \* bound: the user acts when fewer messages are under way

\* The handler raises, for the name of a job that does not exist, say, or is
\* cancelled.
FaultKind == {"handler"}

ASSUME ConsoleAssumption ==
    /\ NoJob \notin Job
    /\ Faults \subseteq FaultKind
    /\ {MaxVisits, MaxMessages} \subseteq Nat

Conn == 1..MaxVisits
Place == Job \union {NoJob}
Request == {"connectJob", "disconnectJob"} \X Job
Reply == {"jobConnected", "jobDisconnected", "404"} \X Job

VARIABLES
    life,       \* of a job: its scripts run, have ended, its event is forgotten
    callbacks,  \* how many console_callbacks of a job send to a connection
    listeners,  \* _ws_job_listeners
    stage,      \* where the ws_handler of a connection is
    requests,   \* what the page has sent and the handler not yet read
    replies,    \* what was sent to the page and not yet received
    visits,     \* how often the page has connected
    online,     \* is its last connection open, as it sees it?
    hash,       \* the job location.hash names
    view,       \* connectedTaskJob
    since       \* auxiliary: the connection on which view was last set

server == <<callbacks, listeners, stage>>
page == <<visits, online, hash, view, since>>
vars == <<life, callbacks, listeners, stage, requests, replies,
          visits, online, hash, view, since>>

TypeOK ==
    /\ life \in [Job -> {"runs", "ended", "over"}]
    /\ callbacks \in [Job -> [Conn -> Nat]]
    /\ listeners \in [Conn -> SUBSET Job]
    /\ stage \in [Conn -> {"none", "open", "ended", "raised"}]
    /\ requests \in [Conn -> Seq(Request)]
    /\ replies \in [Conn -> Seq(Reply)]
    /\ visits \in 0..MaxVisits
    /\ online \in BOOLEAN
    /\ online => visits > 0
    /\ hash \in Place
    /\ view \in Place
    /\ since \in 0..MaxVisits

Init ==
    /\ life = [j \in Job |-> "runs"]
    /\ callbacks = [j \in Job |-> [k \in Conn |-> 0]]
    /\ listeners = [k \in Conn |-> {}]
    /\ stage = [k \in Conn |-> "none"]
    /\ requests = [k \in Conn |-> <<>>]
    /\ replies = [k \in Conn |-> <<>>]
    /\ visits = 0
    /\ online = FALSE
    /\ hash \in Place
    /\ view = NoJob
    /\ since = 0

------------------------------------------------------------------------------
(* Jobs and their events.                                                  *)

(* Job.run replaces console_callbacks by an empty set, unless it raises.   *)
End(j) ==
    /\ life[j] = "runs"
    /\ life' = [life EXCEPT ![j] = "ended"]
    /\ callbacks' \in {callbacks, [callbacks EXCEPT ![j] = [k \in Conn |-> 0]]}
    /\ UNCHANGED <<listeners, stage, requests, replies, page>>

(* The event of the job leaves eventid_event_map.                          *)
Forget(j) ==
    /\ life[j] = "ended"
    /\ life' = [life EXCEPT ![j] = "over"]
    /\ UNCHANGED <<server, requests, replies, page>>

------------------------------------------------------------------------------
(* The page.                                                               *)

\* What the user does, or the page for him, is sent on the last connection.
Send(msgs) == requests' = [requests EXCEPT ![visits] = @ \o msgs]
Idle == online => Len(requests[visits]) + Len(replies[visits]) < MaxMessages

ConnectJob(j) == IF j = NoJob THEN <<>> ELSE <<<<"connectJob", j>>>>
\* switchTab asks to disconnect when a job is connected.
DisconnectJob == IF view = NoJob THEN <<>> ELSE <<<<"disconnectJob", view>>>>

(* connectWS succeeds: onopen has the hash processed.                      *)
Connect ==
    /\ ~online
    /\ visits < MaxVisits
    /\ visits' = visits + 1
    /\ online' = TRUE
    /\ stage' = [stage EXCEPT ![visits + 1] = "open"]
    /\ requests' = [requests EXCEPT ![visits + 1] = ConnectJob(hash)]
    /\ UNCHANGED <<life, callbacks, listeners, replies, hash, view, since>>

(* The link of a job changes the hash; what is sent offline is discarded.  *)
Follow(j) ==
    /\ Idle
    /\ hash # j
    /\ hash' = j
    /\ IF online THEN Send(ConnectJob(j)) ELSE UNCHANGED requests
    /\ UNCHANGED <<life, server, replies, visits, online, view, since>>

(* One of the tabs: the hash is emptied, and the tab is switched.          *)
ShowTab ==
    /\ Idle
    /\ hash' = NoJob
    /\ IF online THEN Send(DisconnectJob) ELSE UNCHANGED requests
    /\ UNCHANGED <<life, server, replies, visits, online, view, since>>

(* The connection is lost, with the replies and the last of the requests.  *)
Close ==
    /\ online
    /\ online' = FALSE
    /\ \E n \in 0..Len(requests[visits]) :
          requests' = [requests EXCEPT ![visits] = SubSeq(@, 1, n)]
    /\ replies' = [replies EXCEPT ![visits] = <<>>]
    /\ UNCHANGED <<life, server, visits, hash, view, since>>

(* Seeded fault: jobDisconnected is overlooked.                            *)
Receive_KeepView ==
    /\ online /\ replies[visits] # <<>>
    /\ replies' = [replies EXCEPT ![visits] = Tail(@)]
    /\ \/ /\ Head(replies[visits])[1] = "jobConnected"
          /\ Send(DisconnectJob)
          /\ view' = Head(replies[visits])[2]
          /\ since' = visits
       \/ /\ Head(replies[visits])[1] # "jobConnected"
          /\ UNCHANGED <<requests, view, since>>
    /\ UNCHANGED <<life, server, visits, online, hash>>

(* wsMsgHandlers: jobConnected switches the tab and then sets              *)
(* connectedTaskJob.  There is no handler for the number 404.              *)
Receive ==
    /\ online /\ replies[visits] # <<>>
    /\ replies' = [replies EXCEPT ![visits] = Tail(@)]
    /\ \/ /\ Head(replies[visits])[1] = "jobConnected"
          /\ Send(DisconnectJob)
          /\ view' = Head(replies[visits])[2]
          /\ since' = visits
       \/ /\ Head(replies[visits])[1] = "jobDisconnected"
          /\ view' = NoJob
          /\ since' = visits
          /\ UNCHANGED requests
       \/ /\ Head(replies[visits])[1] = "404"
          /\ UNCHANGED <<requests, view, since>>
    /\ UNCHANGED <<life, server, visits, online, hash>>

------------------------------------------------------------------------------
(* The handler.                                                            *)

\* Nobody receives what is sent to a connection that is closed.
Answer(k, reply) ==
    replies' = IF online /\ k = visits THEN [replies EXCEPT ![k] = Append(@, reply)]
                                       ELSE replies

(* _disconnect_ws_console discards the callbacks of all jobs the           *)
(* connection ever listened to; they are in _jobws_cb_map until then.      *)
Dropped(k) ==
    [j \in Job |-> IF j \in listeners[k] THEN [callbacks[j] EXCEPT ![k] = 0]
                                         ELSE callbacks[j]]

(* One round of the loop over the messages.  Nothing is awaited between    *)
(* the change and the reply.                                               *)
Handle(k) ==
    LET method == Head(requests[k])[1]
        job == Head(requests[k])[2]
    IN  /\ stage[k] = "open" /\ requests[k] # <<>>
        /\ requests' = [requests EXCEPT ![k] = Tail(@)]
        /\ \/ /\ method = "connectJob" /\ life[job] # "over"
              /\ callbacks' = [callbacks EXCEPT ![job][k] = @ + 1]
              /\ listeners' = [listeners EXCEPT ![k] = @ \union {job}]
              /\ Answer(k, <<"jobConnected", job>>)
           \/ /\ method = "connectJob" /\ life[job] = "over"
              /\ UNCHANGED <<callbacks, listeners>>
              /\ Answer(k, <<"404", job>>)
           \/ /\ method = "disconnectJob"
              /\ callbacks' = Dropped(k)
              /\ UNCHANGED listeners
              /\ Answer(k, <<"jobDisconnected", job>>)
        /\ UNCHANGED <<life, stage, page>>

(* Seeded fault: the console is not disconnected at the end.               *)
HandlerEnds_KeepConsole(k) ==
    /\ stage[k] = "open" /\ requests[k] = <<>>
    /\ ~(online /\ k = visits)
    /\ stage' = [stage EXCEPT ![k] = "ended"]
    /\ UNCHANGED <<life, callbacks, listeners, requests, replies, page>>

(* The page has closed the connection and all it sent has been read.       *)
HandlerEnds(k) ==
    /\ stage[k] = "open" /\ requests[k] = <<>>
    /\ ~(online /\ k = visits)
    /\ stage' = [stage EXCEPT ![k] = "ended"]
    /\ callbacks' = Dropped(k)
    /\ UNCHANGED <<life, listeners, requests, replies, page>>

(* Nothing is cleaned up, and the page sees its connection closed.         *)
HandlerRaises(k) ==
    /\ "handler" \in Faults
    /\ stage[k] = "open"
    /\ stage' = [stage EXCEPT ![k] = "raised"]
    /\ online' = (online /\ k # visits)
    /\ requests' = [requests EXCEPT ![k] = <<>>]
    /\ replies' = [replies EXCEPT ![k] = <<>>]
    /\ UNCHANGED <<life, callbacks, listeners, visits, hash, view, since>>

------------------------------------------------------------------------------
JobNext(j) == End(j) \/ Forget(j) \/ Follow(j)
PageNext == Connect \/ ShowTab \/ Close \/ Receive
HandlerNext(k) == Handle(k) \/ HandlerEnds(k) \/ HandlerRaises(k)

Next ==
    \/ PageNext
    \/ \E j \in Job : JobNext(j)
    \/ \E k \in Conn : HandlerNext(k)

Spec == Init /\ [][Next]_vars

------------------------------------------------------------------------------
(* Properties.                                                             *)

Listening(k) == {j \in Job : callbacks[j][k] > 0}
Quiet == online /\ stage[visits] = "open" /\ requests[visits] = <<>> /\ replies[visits] = <<>>

(* A page that has had all its answers hears the console of the job that   *)
(* it takes for connected and no other, and hears it once: none when there *)
(* is no such job, or when it was connected on an earlier connection.      *)
HearsWhatItShows ==
    Quiet => \A j \in Job : life[j] = "runs" =>
        callbacks[j][visits] = IF view = j /\ since = visits THEN 1 ELSE 0

(* A connection whose handler has come to its end, in whatever order its   *)
(* requests came, has no callback left in any job, running or not.         *)
EndedHearsNothing == \A k \in Conn : stage[k] = "ended" => Listening(k) = {}

==============================================================================
